---- MODULE Spec2Model ----
(***************************************************************************)
(* Inventory stock-and-ledger reconciliation of the MOTOCLUB back office:  *)
(* the sale actions (src/unnamed/part_003, and their second, "optimized"   *)
(* implementation in src/components/purchases/new-purchase-modal.tsx from  *)
(* line 1320 on) and the purchase actions (same file, lines 579-1318).     *)
(*                                                                         *)
(* A store is a record  [stock, ledger, sales, purchases, fin, nextSale,   *)
(* nextItem, nextPurchase].  Every handler is an operator from a store and *)
(* a request to an outcome [db, ok, msg]; every action applies one whole   *)
(* handler.                                                                *)
(***************************************************************************)
EXTENDS Integers, Sequences, FiniteSets, TLC

(***************************************************************************)
(* Bounds of the model.                                                    *)
(***************************************************************************)
MaxOps == 3
MaxQty == 2
MaxToggles == 4
MaxFaultOps == 2

(***************************************************************************)
(* Strings.  A status string is a word in some casing; toLowerCase() keeps *)
(* the word and sets the casing to "lower".  Undefined models a missing    *)
(* (undefined / null) status, Str("", c) the empty string.                 *)
(***************************************************************************)
Casings == {"lower", "Title", "UPPER"}

Str(w, c) == [w |-> w, c |-> c]

Lit(w) == Str(w, "lower")

Undefined == [w |-> "undefined", c |-> "none"]

toLowerCase(s) == [s EXCEPT !.c = "lower"]

\* `status?.toLowerCase() || 'completed'`: undefined and "" are falsy.
lowerOrCompleted(s) ==
  IF s = Undefined \/ s.w = "" THEN Lit("completed") ELSE toLowerCase(s)

(***************************************************************************)
(* Status Impact Policy.                                                   *)
(***************************************************************************)
Impact(a, r) == [defined |-> TRUE, affectsStock |-> a, reduces |-> r]

STOCK_IMPACT_STATUS ==
  [w \in {"completed", "delivered", "paid", "credit", "partial",
          "pending", "cancelled", "returned", "refunded"} |->
     IF w \in {"completed", "delivered", "paid", "credit", "partial"}
     THEN Impact(TRUE, TRUE) ELSE Impact(FALSE, FALSE)]

\* STOCK_IMPACT_STATUS is an object literal: a lookup of a key it does not
\* own falls through to Object.prototype.  The all-lowercase keys found
\* there yield a truthy value (a function, an object) that has neither an
\* affectsStock nor a reduces property, so both read as undefined (falsy).
ObjectPrototypeKeys == {"constructor", "__proto__"}

InheritedValue == [defined |-> FALSE, affectsStock |-> FALSE, reduces |-> FALSE]

shouldAffectStock(status) ==
  LET statusLower == lowerOrCompleted(status) IN
  IF statusLower.w \in DOMAIN STOCK_IMPACT_STATUS
  THEN STOCK_IMPACT_STATUS[statusLower.w]
  ELSE IF statusLower.w \in ObjectPrototypeKeys
       THEN InheritedValue
       ELSE Impact(TRUE, TRUE)

AffectingAlways(status) == TRUE

\* `impact.affectsStock && impact.reduces`
Affecting(status) ==
  LET i == shouldAffectStock(status) IN i.affectsStock /\ i.reduces

getStockHistoryTypeReturned(baseType, status) ==
  LET w == lowerOrCompleted(status).w IN
  CASE w \in {"completed", "paid", "delivered"} ->
         IF baseType = "sale" THEN "sale_completed" ELSE baseType
    [] w = "pending" -> "sale_pending"
    [] w = "cancelled" -> IF baseType = "sale_returned" THEN "sale_returned" ELSE "sale_cancelled"
    [] w \in {"returned", "refunded"} -> "sale_returned"
    [] w \in {"credit", "partial"} ->
         IF baseType = "sale" THEN "sale_credit" ELSE baseType
    [] OTHER -> baseType

\* A helper that keeps the base type whatever the status.
getStockHistoryTypeBase(baseType, status) == baseType

getStockHistoryType(baseType, status) ==
  LET w == lowerOrCompleted(status).w IN
  CASE w \in {"completed", "paid", "delivered"} ->
         IF baseType = "sale" THEN "sale_completed" ELSE baseType
    [] w = "pending" -> "sale_pending"
    [] w = "cancelled" -> "sale_cancelled"
    [] w \in {"returned", "refunded"} -> "sale_returned"
    [] w \in {"credit", "partial"} ->
         IF baseType = "sale" THEN "sale_credit" ELSE baseType
    [] OTHER -> baseType

(***************************************************************************)
(* The product history view: the sign a ledger entry is displayed and      *)
(* summed with is decided by its reason type alone.                        *)
(***************************************************************************)
STOCK_HISTORY_TYPES ==
  [t \in {"purchase", "sale", "sale_completed", "sale_credit", "sale_pending",
          "sale_returned", "sale_cancelled", "sale_deleted",
          "sale_item_added", "sale_item_removed", "sale_item_increased",
          "sale_item_decreased", "sale_status_changed", "adjustment",
          "service_create", "test_entry"} |->
     CASE t \in {"purchase", "sale_returned", "sale_cancelled", "sale_deleted",
                 "sale_item_removed", "sale_item_decreased"} -> "positive"
       [] t \in {"sale", "sale_completed", "sale_credit",
                 "sale_item_added", "sale_item_increased"} -> "negative"
       [] OTHER -> "neutral"]

Abs(n) == IF n < 0 THEN -n ELSE n

\* getQuantityDisplay(item).value
getQuantityDisplay(entry) ==
  LET impact == IF entry.type \in DOMAIN STOCK_HISTORY_TYPES
                THEN STOCK_HISTORY_TYPES[entry.type] ELSE "neutral" IN
  CASE impact = "neutral" -> 0
    [] impact = "negative" -> -Abs(entry.quantity)
    [] OTHER -> Abs(entry.quantity)

(***************************************************************************)
(* The catalog.  A line item's id is looked up in the products table       *)
(* first and in the services table second; an id found in neither is       *)
(* unknown.                                                                *)
(***************************************************************************)
Products == {1, 2}

Services == {3}

UnknownIds == {4}

InitStock == [p \in Products |-> 3]

EmptyStore ==
  [stock |-> InitStock, ledger |-> <<>>, sales |-> <<>>, purchases |-> <<>>,
   fin |-> {}, nextSale |-> 1, nextItem |-> 1, nextPurchase |-> 1]

\* Rows of a table are kept as a function from the ids of the stored rows.
HasRow(table, id) == id \in DOMAIN table

PutRow(table, id, row) ==
  [i \in DOMAIN table \cup {id} |-> IF i = id THEN row ELSE table[i]]

DropRow(table, id) == [i \in DOMAIN table \ {id} |-> table[i]]

(***************************************************************************)
(* Atomic scope of the store (sql`BEGIN` / sql`COMMIT` / sql`ROLLBACK`):   *)
(* a rollback puts the store back to what it was at BEGIN.                 *)
(***************************************************************************)
sqlRollback(atBegin, now) == atBegin

sqlCommit(atBegin, now) == now

(***************************************************************************)
(* Stock Mutator.  fail: a statement of the call throws.                   *)
(***************************************************************************)
updateProductStockIgnoresService(db, productId, quantityChange, operation, fail) ==
  LET pid == IF productId \in Products THEN productId ELSE 1
      d == IF operation = "subtract" THEN -quantityChange ELSE quantityChange IN
  IF fail THEN [db |-> db, success |-> FALSE, isService |-> FALSE]
  ELSE [db |-> [db EXCEPT !.stock[pid] = @ + d], success |-> TRUE, isService |-> FALSE]

updateProductStock(db, productId, quantityChange, operation, fail) ==
  IF fail THEN [db |-> db, success |-> FALSE, isService |-> FALSE]
  ELSE IF productId \notin Products
  THEN [db |-> db, success |-> TRUE, isService |-> TRUE]
  ELSE IF operation = "subtract"
  THEN [db |-> [db EXCEPT !.stock[productId] = @ - quantityChange],
        success |-> TRUE, isService |-> FALSE]
  ELSE [db |-> [db EXCEPT !.stock[productId] = @ + quantityChange],
        success |-> TRUE, isService |-> FALSE]

(***************************************************************************)
(* Stock Ledger.                                                           *)
(***************************************************************************)
Entry(productId, quantity, type, referenceId, referenceType) ==
  [product_id |-> productId, quantity |-> quantity, type |-> type,
   reference_id |-> referenceId, reference_type |-> referenceType]

\* A ledger that keeps one entry per product and transaction: a new entry
\* takes the place of the earlier ones.
createStockHistoryEntryUpsert(db, productId, changeType, quantity, referenceId, referenceType, fail) ==
  IF fail THEN [db |-> db, success |-> FALSE]
  ELSE IF productId \notin Products
  THEN [db |-> db, success |-> TRUE]
  ELSE [db |-> [db EXCEPT !.ledger =
                  Append(SelectSeq(@, LAMBDA e : ~(/\ e.product_id = productId
                                                   /\ e.reference_id = referenceId
                                                   /\ e.reference_type = referenceType)),
                         Entry(productId, Abs(quantity), changeType,
                               referenceId, referenceType))],
        success |-> TRUE]

createStockHistoryEntry(db, productId, changeType, quantity, referenceId, referenceType, fail) ==
  IF fail THEN [db |-> db, success |-> FALSE]
  ELSE IF productId \notin Products
  THEN [db |-> db, success |-> TRUE]
  ELSE [db |-> [db EXCEPT !.ledger =
                  Append(@, Entry(productId, Abs(quantity), changeType,
                                  referenceId, referenceType))],
        success |-> TRUE]

(***************************************************************************)
(* handleStockChange: the status-level reconciliation of one sale.         *)
(* F is the set of statements that throw in this execution:                *)
(* <<"stock", phase, i>> and <<"ledger", phase, i>> are the stock update   *)
(* and the ledger insert for the i-th item of that phase.                  *)
(***************************************************************************)
Plan(upd, op, type) == [upd |-> upd, op |-> op, type |-> type]

stockPlanNoRestore(status, operation, previousStatus) ==
  IF operation = "update" /\ Affecting(previousStatus) /\ ~Affecting(status)
  THEN Plan(FALSE, "add", getStockHistoryType("sale_returned", status))
  ELSE IF operation = "update"
  THEN Plan(~Affecting(previousStatus) /\ Affecting(status), "subtract",
            getStockHistoryType("sale_status_changed", status))
  ELSE Plan(Affecting(status), IF operation = "create" THEN "subtract" ELSE "add",
            IF operation = "create" THEN getStockHistoryType("sale", status)
            ELSE "sale_deleted")

stockPlan(status, operation, previousStatus) ==
  LET nowAffecting == Affecting(status)
      wasAffecting == IF previousStatus = Undefined \/ previousStatus.w = "" THEN FALSE
                      ELSE Affecting(previousStatus) IN
  CASE operation = "create" ->
         IF nowAffecting
         THEN Plan(TRUE, "subtract", getStockHistoryType("sale", status))
         ELSE IF toLowerCase(status) = Lit("pending")
         THEN Plan(FALSE, "subtract", "sale_pending")
         ELSE Plan(FALSE, "subtract", getStockHistoryType("sale", status))
    [] operation = "update" ->
         IF ~wasAffecting /\ nowAffecting
         THEN Plan(TRUE, "subtract", getStockHistoryType("sale_status_changed", status))
         ELSE IF wasAffecting /\ ~nowAffecting
         THEN Plan(TRUE, "add", getStockHistoryType("sale_returned", status))
         ELSE Plan(FALSE, "subtract", getStockHistoryType("sale_status_changed", status))
    [] OTHER ->
         IF nowAffecting
         THEN Plan(TRUE, "add", "sale_deleted")
         ELSE Plan(FALSE, "subtract", "sale_deleted")

\* A reconciliation that gives up an item's stock change when the ledger
\* insert for it fails.
stockChangeItemStrict(db, item, i, saleId, plan, F) ==
  IF <<"ledger", "status", i>> \in F THEN db
  ELSE IF plan.upd
  THEN LET r == updateProductStock(db, item.productId, item.quantity, plan.op,
                                   <<"stock", "status", i>> \in F) IN
       IF r.success /\ ~r.isService
       THEN createStockHistoryEntry(r.db, item.productId, plan.type,
              IF plan.op = "subtract" THEN -item.quantity ELSE item.quantity,
              saleId, "sale", FALSE).db
       ELSE r.db
  ELSE createStockHistoryEntry(db, item.productId, plan.type, 0, saleId, "sale",
                               FALSE).db

stockChangeItem(db, item, i, saleId, plan, F) ==
  IF plan.upd
  THEN LET r == updateProductStock(db, item.productId, item.quantity, plan.op,
                                   <<"stock", "status", i>> \in F) IN
       IF r.success /\ ~r.isService
       THEN createStockHistoryEntry(r.db, item.productId, plan.type,
              IF plan.op = "subtract" THEN -item.quantity ELSE item.quantity,
              saleId, "sale", <<"ledger", "status", i>> \in F).db
       ELSE r.db
  ELSE createStockHistoryEntry(db, item.productId, plan.type, 0, saleId, "sale",
                               <<"ledger", "status", i>> \in F).db

RECURSIVE stockChangeLoop(_, _, _, _, _, _)
stockChangeLoop(db, items, i, saleId, plan, F) ==
  IF i > Len(items) THEN db
  ELSE stockChangeLoop(stockChangeItem(db, items[i], i, saleId, plan, F),
                       items, i + 1, saleId, plan, F)

handleStockChangeSkipDelete(db, items, saleId, status, operation, previousStatus, F) ==
  IF operation = "delete" THEN db
  ELSE stockChangeLoop(db, items, 1, saleId, stockPlan(status, operation, previousStatus), F)

handleStockChange(db, items, saleId, status, operation, previousStatus, F) ==
  stockChangeLoop(db, items, 1, saleId, stockPlan(status, operation, previousStatus), F)

(***************************************************************************)
(* Requests.  A new line item is [productId, quantity]; a line item of an  *)
(* update is [id, productId, quantity] with id = 0 when the caller sends   *)
(* no item id.  A stored sale item is [id, product_id, quantity].          *)
(***************************************************************************)
NewItem(productId, quantity) == [productId |-> productId, quantity |-> quantity]

UpdItem(id, productId, quantity) ==
  [id |-> id, productId |-> productId, quantity |-> quantity]

ItemRow(id, productId, quantity) ==
  [id |-> id, product_id |-> productId, quantity |-> quantity]

\* What a call of an operation ends with: a result {success, message}
\* returned to the caller (thrown = FALSE), or an exception that leaves the
\* operation (thrown = TRUE).  db is the store the call leaves behind.
Outcome(db, ok, msg) == [db |-> db, ok |-> ok, msg |-> msg, thrown |-> FALSE]

Thrown(db, msg) == [db |-> db, ok |-> FALSE, msg |-> msg, thrown |-> TRUE]

\* `Number(saleData.<name>) || 0` and the like: a field the caller did not
\* send reads as the default.
Field(req, name, default) == IF name \in DOMAIN req THEN req[name] ELSE default

Max(a, b) == IF a > b THEN a ELSE b

\* The line items are sold at the unit price 1 of the catalog:
\* reduce((sum, item) => sum + parseFloat(item.price) * parseInt(item.quantity), 0)
RECURSIVE subtotal(_, _)
subtotal(items, i) ==
  IF i > Len(items) THEN 0 ELSE items[i].quantity + subtotal(items, i + 1)

\* Math.max(0, subtotal - discountAmount)
saleTotal(req) == Max(0, subtotal(req.items, 1) - Field(req, "discount", 0))

\* The received amount a sale is stored with, by status.  `other` is the
\* amount of a status outside the listed ones.
receivedByStatus(status, total, req, other) ==
  LET w == toLowerCase(status).w IN
  CASE w \in {"completed", "paid"} -> total
    [] w = "cancelled" -> 0
    [] w \in {"credit", "partial", "pending"} -> Field(req, "receivedAmount", 0)
    [] OTHER -> other

\* addSale rejects a received amount above the total for credit and partial.
addSaleRejectsReceived(status, total, req) ==
  /\ toLowerCase(status).w \in {"credit", "partial"}
  /\ Field(req, "receivedAmount", 0) > total

\* `saleData.paymentStatus || "completed"`
orCompleted(s) == IF s = Undefined \/ s.w = "" THEN Lit("completed") ELSE s

itemExists(productId) == productId \in Products \cup Services

\* originalItems.map(item => ({ productId: item.product_id, quantity: item.quantity }))
asNewItems(rows) ==
  [i \in 1..Len(rows) |-> NewItem(rows[i].product_id, rows[i].quantity)]

\* Financial Adjustment Recorder: the records it has written.
recordFin(db, kind, id, fail) ==
  IF fail THEN db ELSE [db EXCEPT !.fin = @ \cup {<<kind, id>>}]

(***************************************************************************)
(* addSale, first implementation (src/unnamed/part_003).                   *)
(***************************************************************************)
SaleRow(status, total, discount, received) ==
  [status |-> status, items |-> <<>>, total_amount |-> total,
   discount |-> discount, received_amount |-> received]

insertSaleRow(db, status, req) ==
  LET total == saleTotal(req) IN
  [db EXCEPT !.sales = PutRow(@, db.nextSale,
                 SaleRow(status, total, Field(req, "discount", 0),
                         receivedByStatus(status, total, req, 0))),
             !.nextSale = @ + 1]

insertSaleItem(db, saleId, item) ==
  [db EXCEPT !.sales[saleId].items =
               Append(@, ItemRow(db.nextItem, item.productId, item.quantity)),
             !.nextItem = @ + 1]

RECURSIVE insertItemsLoop(_, _, _, _, _)
insertItemsLoop(db, saleId, items, i, F) ==
  IF i > Len(items) THEN Outcome(db, TRUE, "inserted")
  ELSE IF ~itemExists(items[i].productId)
  THEN Outcome(db, FALSE, "Item not found in products or services")
  ELSE IF <<"insert", "items", i>> \in F
  THEN Outcome(db, FALSE, "Failed to add item to sale")
  ELSE insertItemsLoop(insertSaleItem(db, saleId, items[i]), saleId, items, i + 1, F)

addSale1(db, req, F) ==
  LET status == orCompleted(req.status)
      saleId == db.nextSale
      ins == insertItemsLoop(insertSaleRow(db, status, req), saleId, req.items, 1, F) IN
  IF addSaleRejectsReceived(status, saleTotal(req), req)
  THEN Outcome(sqlRollback(db, db), FALSE, "Received amount cannot be greater than total amount")
  ELSE IF ~ins.ok THEN Outcome(sqlRollback(db, ins.db), FALSE, ins.msg)
  ELSE LET d1 == handleStockChange(ins.db, req.items, saleId, status, "create", Undefined, F)
           d2 == recordFin(d1, "sale", saleId, <<"fin", "sale", 0>> \in F) IN
       Outcome(sqlCommit(db, d2), TRUE, "Sale added successfully")

(***************************************************************************)
(* addSale, second implementation (new-purchase-modal.tsx:2105).           *)
(***************************************************************************)
RECURSIVE insertAllItems(_, _, _, _)
insertAllItems(db, saleId, items, i) ==
  IF i > Len(items) THEN db
  ELSE insertAllItems(insertSaleItem(db, saleId, items[i]), saleId, items, i + 1)

RECURSIVE stockBatch(_, _, _, _, _)
stockBatch(db, items, i, status, F) ==
  IF i > Len(items) THEN db
  ELSE stockBatch(updateProductStock(db, items[i].productId, items[i].quantity,
                                     "subtract", <<"stock", "status", i>> \in F).db,
                  items, i + 1, status, F)

RECURSIVE historyBatch(_, _, _, _, _, _)
historyBatch(db, items, i, saleId, historyType, F) ==
  IF i > Len(items) THEN db
  ELSE historyBatch(
         createStockHistoryEntry(db, items[i].productId, historyType,
           IF items[i].productId \in Products THEN -items[i].quantity ELSE 0,
           saleId, "sale", <<"ledger", "status", i>> \in F).db,
         items, i + 1, saleId, historyType, F)

isProductItem(item) == item.productId \in Products

isServiceItem(item) == item.productId \notin Products

batchProcessStockChanges(db, validatedItems, saleId, status, F) ==
  IF ~Affecting(status) THEN db
  ELSE LET productsToUpdate == SelectSeq(validatedItems, isProductItem)
           servicesToLog == SelectSeq(validatedItems, isServiceItem) IN
       historyBatch(stockBatch(db, productsToUpdate, 1, status, F),
                    productsToUpdate \o servicesToLog, 1, saleId,
                    getStockHistoryType("sale", status), F)

addSale2(db, req, F) ==
  LET status == orCompleted(req.status)
      saleId == db.nextSale IN
  IF addSaleRejectsReceived(status, saleTotal(req), req)
  THEN Outcome(sqlRollback(db, db), FALSE, "Received amount cannot be greater than total amount")
  ELSE IF \E i \in 1..Len(req.items) : ~itemExists(req.items[i].productId)
  THEN Outcome(sqlRollback(db, db), FALSE, "Item not found in products or services")
  ELSE IF \E i \in 1..Len(req.items) : <<"insert", "items", i>> \in F
  THEN Outcome(sqlRollback(db, insertSaleRow(db, status, req)), FALSE, "Failed to add item to sale")
  ELSE LET d0 == insertAllItems(insertSaleRow(db, status, req), saleId, req.items, 1)
           d1 == batchProcessStockChanges(d0, req.items, saleId, status, F)
           d2 == recordFin(d1, "sale", saleId, <<"fin", "sale", 0>> \in F) IN
       Outcome(sqlCommit(db, d2), TRUE, "Sale added successfully")

addSale(impl, db, req, F) ==
  IF impl = 1 THEN addSale1(db, req, F) ELSE addSale2(db, req, F)

(***************************************************************************)
(* updateSale: change detection.                                           *)
(***************************************************************************)
\* JSON.stringify of the (id, productId, quantity, price) lists, in order.
itemsChanged1(originalItems, newItems, priceChanged) ==
  \/ priceChanged
  \/ [i \in 1..Len(originalItems) |->
        <<originalItems[i].id, originalItems[i].product_id, originalItems[i].quantity>>]
     # [i \in 1..Len(newItems) |->
        <<newItems[i].id, newItems[i].productId, newItems[i].quantity>>]

\* Map key of checkItemsChanged: `item.id || temp_<product id>`.
itemKey(id, productId) == IF id # 0 THEN <<"id", id>> ELSE <<"temp", productId>>

\* Map.set overwrites: the value of a key is the last item that has it.
lastWithKey(newItems, key) ==
  LET ks == {i \in 1..Len(newItems) :
               itemKey(newItems[i].id, newItems[i].productId) = key} IN
  newItems[CHOOSE i \in ks : \A j \in ks : j <= i]

checkItemsChanged(originalItems, newItems, priceChanged) ==
  LET origKeys == {itemKey(originalItems[i].id, originalItems[i].product_id) :
                     i \in 1..Len(originalItems)}
      newKeys == {itemKey(newItems[i].id, newItems[i].productId) :
                    i \in 1..Len(newItems)} IN
  \/ Len(originalItems) # Len(newItems)
  \/ \E i \in 1..Len(originalItems) :
       LET key == itemKey(originalItems[i].id, originalItems[i].product_id) IN
       \/ key \notin newKeys
       \/ /\ key \in newKeys
          /\ \/ lastWithKey(newItems, key).productId # originalItems[i].product_id
             \/ lastWithKey(newItems, key).quantity # originalItems[i].quantity
             \/ priceChanged
  \/ newKeys \ origKeys # {}

calculateSaleChanges(impl, original, req) ==
  LET originalStatus == IF impl = 1 THEN orCompleted(original.status)
                        ELSE toLowerCase(orCompleted(original.status))
      newStatus == IF impl = 1 THEN orCompleted(req.status)
                   ELSE toLowerCase(orCompleted(req.status))
      newTotal == saleTotal(req)
      newReceived == receivedByStatus(newStatus, newTotal, req,
                                      IF impl = 1 THEN 0 ELSE newTotal)
      newDiscount == Field(req, "discount", 0)
      originalDiscount ==
        IF impl = 1
        THEN Max(0, subtotal(asNewItems(original.items), 1) - original.total_amount)
        ELSE original.discount IN
  [originalStatus |-> originalStatus,
   newStatus |-> newStatus,
   newTotal |-> newTotal,
   newDiscount |-> newDiscount,
   newReceived |-> newReceived,
   statusChanged |-> originalStatus # newStatus,
   totalChanged |-> original.total_amount # newTotal,
   discountChanged |-> originalDiscount # newDiscount,
   receivedChanged |-> original.received_amount # newReceived,
   itemsChanged |-> IF impl = 1
                    THEN itemsChanged1(original.items, req.items, req.priceChanged)
                    ELSE checkItemsChanged(original.items, req.items, req.priceChanged)]

(***************************************************************************)
(* updateSale: the sale_items rows.  A sent item with an id updates the    *)
(* row of that id, one without an id is inserted, and the original rows    *)
(* whose id was not sent are deleted.                                      *)
(***************************************************************************)
updateSaleItem(db, saleId, item) ==
  [db EXCEPT !.sales[saleId].items =
     [k \in DOMAIN @ |-> IF @[k].id = item.id
                         THEN ItemRow(item.id, item.productId, item.quantity)
                         ELSE @[k]]]

RECURSIVE writeItemsLoop(_, _, _, _)
writeItemsLoop(db, saleId, newItems, i) ==
  IF i > Len(newItems) THEN db
  ELSE writeItemsLoop(IF newItems[i].id # 0
                      THEN updateSaleItem(db, saleId, newItems[i])
                      ELSE insertSaleItem(db, saleId, newItems[i]),
                      saleId, newItems, i + 1)

deleteUnsentItems(db, saleId, originalItems, newItems) ==
  LET processedItemIds == {newItems[i].id : i \in 1..Len(newItems)} \ {0}
      gone == {originalItems[i].id : i \in 1..Len(originalItems)} \ processedItemIds IN
  [db EXCEPT !.sales[saleId].items = SelectSeq(@, LAMBDA r : r.id \notin gone)]

(***************************************************************************)
(* handleItemStockChanges, first implementation: per sent item id.         *)
(***************************************************************************)
stockAndLedger(db, productId, quantity, operation, type, saleId, tag, F) ==
  LET r == updateProductStock(db, productId, quantity, operation,
                              <<"stock", tag[1], tag[2]>> \in F) IN
  IF r.success /\ ~r.isService
  THEN createStockHistoryEntry(r.db, productId, type,
         IF operation = "subtract" THEN -quantity ELSE quantity,
         saleId, "sale", <<"ledger", tag[1], tag[2]>> \in F).db
  ELSE r.db

sentItemChange(db, originalItems, item, i, saleId, F) ==
  IF item.id # 0
  THEN IF \E k \in 1..Len(originalItems) : originalItems[k].id = item.id
       THEN LET existingItem ==
                  originalItems[CHOOSE k \in 1..Len(originalItems) :
                                  originalItems[k].id = item.id]
                quantityDiff == item.quantity - existingItem.quantity IN
            IF quantityDiff > 0
            THEN stockAndLedger(db, item.productId, quantityDiff, "subtract",
                                "sale_item_increased", saleId, <<"items", i>>, F)
            ELSE IF quantityDiff < 0
            THEN stockAndLedger(db, item.productId, Abs(quantityDiff), "add",
                                "sale_item_decreased", saleId, <<"items", i>>, F)
            ELSE db
       ELSE db
  ELSE stockAndLedger(db, item.productId, item.quantity, "subtract",
                      "sale_item_added", saleId, <<"items", i>>, F)

RECURSIVE sentItemsLoop(_, _, _, _, _, _)
sentItemsLoop(db, originalItems, newItems, i, saleId, F) ==
  IF i > Len(newItems) THEN db
  ELSE sentItemsLoop(sentItemChange(db, originalItems, newItems[i], i, saleId, F),
                     originalItems, newItems, i + 1, saleId, F)

RECURSIVE removedItemsLoop(_, _, _, _, _, _)
removedItemsLoop(db, originalItems, processedItemIds, k, saleId, F) ==
  IF k > Len(originalItems) THEN db
  ELSE removedItemsLoop(
         IF originalItems[k].id \notin processedItemIds
         THEN stockAndLedger(db, originalItems[k].product_id, originalItems[k].quantity,
                             "add", "sale_item_removed", saleId, <<"removed", k>>, F)
         ELSE db,
         originalItems, processedItemIds, k + 1, saleId, F)

handleItemStockChanges1(db, originalItems, newItems, saleId, saleStatus, F) ==
  IF ~Affecting(saleStatus) THEN db
  ELSE removedItemsLoop(sentItemsLoop(db, originalItems, newItems, 1, saleId, F),
                        originalItems,
                        {newItems[i].id : i \in 1..Len(newItems)} \ {0},
                        1, saleId, F)

(***************************************************************************)
(* handleItemStockChanges, second implementation: per product id.          *)
(* originalMap.set(product_id, ..) overwrites, so a product that has       *)
(* several original rows counts with the quantity of its last row; the     *)
(* quantities of the sent items of one product are summed.                 *)
(***************************************************************************)
RECURSIVE distinctKeys(_, _, _)
distinctKeys(ids, i, acc) ==
  IF i > Len(ids) THEN acc
  ELSE distinctKeys(ids, i + 1,
         IF \E k \in 1..Len(acc) : acc[k] = ids[i] THEN acc ELSE Append(acc, ids[i]))

originalQty(originalItems, productId) ==
  LET ks == {k \in 1..Len(originalItems) : originalItems[k].product_id = productId} IN
  IF ks = {} THEN 0
  ELSE originalItems[CHOOSE k \in ks : \A j \in ks : j <= k].quantity

RECURSIVE newQty(_, _, _)
newQty(newItems, productId, i) ==
  IF i > Len(newItems) THEN 0
  ELSE (IF newItems[i].productId = productId THEN newItems[i].quantity ELSE 0)
       + newQty(newItems, productId, i + 1)

allProductIds(originalItems, newItems) ==
  distinctKeys([k \in 1..Len(originalItems) |-> originalItems[k].product_id]
               \o [i \in 1..Len(newItems) |-> newItems[i].productId], 1, <<>>)

productChange(db, originalItems, newItems, productId, k, saleId, F) ==
  LET qtyDiff == newQty(newItems, productId, 1) - originalQty(originalItems, productId) IN
  IF qtyDiff > 0
  THEN stockAndLedger(db, productId, qtyDiff, "subtract", "sale_item_increased",
                      saleId, <<"items", k>>, F)
  ELSE IF qtyDiff < 0
  THEN stockAndLedger(db, productId, Abs(qtyDiff), "add", "sale_item_decreased",
                      saleId, <<"items", k>>, F)
  ELSE db

RECURSIVE productsLoop(_, _, _, _, _, _, _)
productsLoop(db, originalItems, newItems, ids, k, saleId, F) ==
  IF k > Len(ids) THEN db
  ELSE productsLoop(productChange(db, originalItems, newItems, ids[k], k, saleId, F),
                    originalItems, newItems, ids, k + 1, saleId, F)

handleItemStockChanges2(db, originalItems, newItems, saleId, status, F) ==
  IF ~Affecting(status) THEN db
  ELSE productsLoop(db, originalItems, newItems,
                    allProductIds(originalItems, newItems), 1, saleId, F)

handleItemStockChanges(impl, db, originalItems, newItems, saleId, status, F) ==
  IF impl = 1
  THEN handleItemStockChanges1(db, originalItems, newItems, saleId, status, F)
  ELSE handleItemStockChanges2(db, originalItems, newItems, saleId, status, F)

(***************************************************************************)
(* updateSale (both implementations share the structure) and deleteSale.   *)
(***************************************************************************)
\* The part of updateSale after its two SELECTs: original is the sale row
\* and the sale items they returned, db the store the statements that
\* follow act on.  An UPDATE or DELETE of a row that is no longer there
\* affects no row.
updateSaleFrom(impl, db, original, req, F) ==
  LET originalItems == original.items
      changes == calculateSaleChanges(impl, original, req) IN
  IF ~(\/ changes.statusChanged \/ changes.totalChanged \/ changes.discountChanged
       \/ changes.receivedChanged \/ changes.itemsChanged)
  THEN Outcome(sqlRollback(db, db), TRUE, "No changes detected")
  ELSE IF toLowerCase(changes.newStatus) = Lit("credit")
          /\ changes.newReceived > changes.newTotal
  THEN Outcome(sqlRollback(db, db), FALSE, "Received amount cannot be greater than total amount")
  ELSE IF <<"update", "sale", 0>> \in F
  THEN Outcome(sqlRollback(db, db), FALSE, "Database error")
  ELSE
  LET d1 == IF ~HasRow(db.sales, req.id) THEN db
            ELSE [db EXCEPT !.sales[req.id].status = changes.newStatus,
                            !.sales[req.id].total_amount = changes.newTotal,
                            !.sales[req.id].discount = changes.newDiscount,
                            !.sales[req.id].received_amount = changes.newReceived]
      d2 == IF changes.statusChanged
            THEN handleStockChange(d1, asNewItems(originalItems), req.id,
                                   changes.newStatus, "update",
                                   changes.originalStatus, F)
            ELSE d1
      d3 == IF ~HasRow(d2.sales, req.id) THEN d2
            ELSE deleteUnsentItems(writeItemsLoop(d2, req.id, req.items, 1),
                                   req.id, originalItems, req.items)
      d4 == IF changes.itemsChanged
            THEN handleItemStockChanges(impl, d3, originalItems, req.items, req.id,
                                        changes.newStatus, F)
            ELSE d3
      d5 == recordFin(d4, "adjustment", req.id, <<"fin", "sale", 0>> \in F) IN
  IF <<"insert", "items", 1>> \in F
  THEN Outcome(sqlRollback(db, d2), FALSE, "Database error")
  ELSE Outcome(sqlCommit(db, d5), TRUE, "Sale updated successfully")

updateSale(impl, db, req, F) ==
  IF ~HasRow(db.sales, req.id)
  THEN Outcome(sqlRollback(db, db), FALSE, "Sale not found")
  ELSE updateSaleFrom(impl, db, db.sales[req.id], req, F)

\* The part of deleteSale after its two SELECTs, which returned sale.
deleteSaleFrom(impl, db, sale, saleId, F) ==
  LET status == IF impl = 1 THEN sale.status ELSE orCompleted(sale.status)
      d1 == handleStockChange(db, asNewItems(sale.items), saleId, status,
                              "delete", Undefined, F)
      d2 == [d1 EXCEPT !.sales = DropRow(@, saleId)]
      d3 == recordFin(d2, "deletion", saleId, <<"fin", "sale", 0>> \in F) IN
  IF <<"delete", "rows", 0>> \in F
  THEN Outcome(sqlRollback(db, d1), FALSE, "Database error")
  ELSE IF impl = 1 /\ ~HasRow(d1.sales, saleId)
  THEN Outcome(sqlRollback(db, d1), FALSE, "Failed to delete sale")
  ELSE Outcome(sqlCommit(db, d3), TRUE, "Sale deleted successfully")

deleteSale(impl, db, saleId, F) ==
  IF ~HasRow(db.sales, saleId)
  THEN Outcome(sqlRollback(db, db), FALSE, "Sale not found")
  ELSE deleteSaleFrom(impl, db, db.sales[saleId], saleId, F)

(***************************************************************************)
(* Purchase actions (new-purchase-modal.tsx:728-1318).  A purchase row is  *)
(* [status, purchase_status, items]; an item is [product_id, quantity].    *)
(* Here a failing stock update or row statement throws and the handler     *)
(* rolls back; only a failing ledger insert is caught and skipped.         *)
(***************************************************************************)
PItem(productId, quantity) == [product_id |-> productId, quantity |-> quantity]

GREATEST(a, b) == IF a > b THEN a ELSE b

\* UPDATE products SET stock = ... WHERE id = productId
setStock(db, productId, value) ==
  IF productId \in Products THEN [db EXCEPT !.stock[productId] = value] ELSE db

stockOf(db, productId) == IF productId \in Products THEN db.stock[productId] ELSE 0

\* INSERT INTO product_stock_history inside try/catch: the quantity as given.
insertHistory(db, productId, quantity, type, purchaseId, fail) ==
  IF fail THEN db
  ELSE [db EXCEPT !.ledger = Append(@, Entry(productId, quantity, type,
                                              purchaseId, "purchase"))]

stockWasAddedWhenDelivered(purchaseStatus, status) ==
  purchaseStatus # Undefined /\ toLowerCase(purchaseStatus) = Lit("delivered")

stockWasAdded(purchaseStatus, status) ==
  /\ purchaseStatus # Undefined /\ toLowerCase(purchaseStatus) = Lit("delivered")
  /\ ~(status # Undefined /\ toLowerCase(status) = Lit("cancelled"))

RECURSIVE purchaseStockLoop(_, _, _)
purchaseStockLoop(db, items, i) ==
  IF i > Len(items) THEN db
  ELSE purchaseStockLoop(
         setStock(db, items[i].product_id,
                  stockOf(db, items[i].product_id) + items[i].quantity),
         items, i + 1)

RECURSIVE purchaseHistoryLoop(_, _, _, _, _)
purchaseHistoryLoop(db, items, i, purchaseId, F) ==
  IF i > Len(items) THEN db
  ELSE purchaseHistoryLoop(
         insertHistory(db, items[i].product_id, items[i].quantity, "purchase",
                       purchaseId, <<"ledger", "purchase", i>> \in F),
         items, i + 1, purchaseId, F)

\* TRUE when the list of validation errors is empty.
validatePurchaseData(totalAmount, items) ==
  /\ totalAmount > 0
  /\ Len(items) > 0
  /\ \A i \in 1..Len(items) : items[i].product_id > 0 /\ items[i].quantity > 0

\* createPurchase normalizes the items in items.map(...), before its
\* try blocks: the callback throws on a product id or a quantity <= 0.
normalizeItemsThrows(items) ==
  \E i \in 1..Len(items) : items[i].product_id <= 0 \/ items[i].quantity <= 0

finalReceivedAmount(status, totalAmount, receivedAmount) ==
  CASE toLowerCase(status) = Lit("paid") -> totalAmount
    [] toLowerCase(status) = Lit("cancelled") -> 0
    [] OTHER -> receivedAmount

createPurchase(db, req, F) ==
  IF normalizeItemsThrows(req.items)
  THEN Thrown(db, "Invalid product ID or quantity")
  ELSE IF ~validatePurchaseData(req.total_amount, req.items)
  THEN Outcome(db, FALSE, "Invalid items")
  ELSE IF Field(req, "received_amount", 0) > req.total_amount
  THEN Outcome(db, FALSE, "Received amount cannot be greater than total amount")
  ELSE
  LET purchaseId == db.nextPurchase
      d1 == [db EXCEPT !.purchases = PutRow(@, purchaseId,
                           [status |-> req.status,
                            purchase_status |-> req.purchase_status,
                            total_amount |-> req.total_amount,
                            received_amount |->
                              finalReceivedAmount(req.status, req.total_amount,
                                                  Field(req, "received_amount", 0)),
                            items |-> req.items]),
                       !.nextPurchase = @ + 1]
      adds == stockWasAdded(req.purchase_status, req.status)
      d2 == IF adds THEN purchaseStockLoop(d1, req.items, 1) ELSE d1
      d3 == IF adds THEN purchaseHistoryLoop(d2, req.items, 1, purchaseId, F) ELSE d2
      d4 == recordFin(d3, "purchase", purchaseId, <<"fin", "purchase", 0>> \in F) IN
  IF \E i \in 1..Len(req.items) : <<"insert", "items", i>> \in F
  THEN Outcome(sqlRollback(db, d1), FALSE, "Failed to process item")
  ELSE IF adds /\ \E i \in 1..Len(req.items) : <<"stock", "purchase", i>> \in F
  THEN Outcome(sqlRollback(db, d1), FALSE, "Failed to create purchase")
  ELSE Outcome(sqlCommit(db, d4), TRUE, "created")

\* new Map(items.map(item => [item.product_id, item.quantity])): last one wins.
mapQuantity(items, productId) ==
  LET ks == {k \in 1..Len(items) : items[k].product_id = productId} IN
  IF ks = {} THEN 0 ELSE items[CHOOSE k \in ks : \A j \in ks : j <= k].quantity

netChange(wasStockAdded, shouldAddStock, currentItems, newItems, productId) ==
  (IF shouldAddStock THEN mapQuantity(newItems, productId) ELSE 0)
  - (IF wasStockAdded THEN mapQuantity(currentItems, productId) ELSE 0)

RECURSIVE stockUpdatesLoop(_, _, _, _, _, _, _, _, _)
stockUpdatesLoop(db, ids, k, purchaseId, was, should, currentItems, newItems, F) ==
  IF k > Len(ids) THEN Outcome(db, TRUE, "updated")
  ELSE LET n == netChange(was, should, currentItems, newItems, ids[k]) IN
       IF n = 0
       THEN stockUpdatesLoop(db, ids, k + 1, purchaseId, was, should,
                             currentItems, newItems, F)
       ELSE IF <<"stock", "purchase", k>> \in F
       THEN Outcome(db, FALSE, "Failed to update purchase")
       ELSE stockUpdatesLoop(
              insertHistory(setStock(db, ids[k], GREATEST(0, stockOf(db, ids[k]) + n)),
                            ids[k], n, IF n > 0 THEN "purchase" ELSE "adjustment",
                            purchaseId, <<"ledger", "purchase", k>> \in F),
              ids, k + 1, purchaseId, was, should, currentItems, newItems, F)

handleStockUpdates(db, purchaseId, oldPurchase, newPurchase, currentItems, newItems, F) ==
  stockUpdatesLoop(db,
    distinctKeys([k \in 1..Len(currentItems) |-> currentItems[k].product_id]
                 \o [i \in 1..Len(newItems) |-> newItems[i].product_id], 1, <<>>),
    1, purchaseId,
    stockWasAdded(oldPurchase.purchase_status, oldPurchase.status),
    stockWasAdded(newPurchase.purchase_status, newPurchase.status),
    currentItems, newItems, F)

updatePurchase(db, req, F) ==
  IF ~validatePurchaseData(req.total_amount, req.items)
  THEN Outcome(db, FALSE, "Invalid items")
  ELSE IF Field(req, "received_amount", 0) > req.total_amount
  THEN Outcome(db, FALSE, "Received amount cannot be greater than total amount")
  ELSE IF ~HasRow(db.purchases, req.id)
  THEN Outcome(sqlRollback(db, db), FALSE, "Purchase not found or access denied")
  ELSE
  LET current == db.purchases[req.id]
      d1 == [db EXCEPT !.purchases[req.id].status = req.status,
                       !.purchases[req.id].purchase_status = req.purchase_status,
                       !.purchases[req.id].total_amount = req.total_amount,
                       !.purchases[req.id].received_amount =
                         finalReceivedAmount(req.status, req.total_amount,
                                             Field(req, "received_amount", 0))]
      r == handleStockUpdates(d1, req.id, current, req, current.items, req.items, F)
      d2 == [r.db EXCEPT !.purchases[req.id].items = req.items]
      d3 == recordFin(d2, "purchase_adjustment", req.id, <<"fin", "purchase", 0>> \in F) IN
  IF ~r.ok THEN Outcome(sqlRollback(db, r.db), FALSE, r.msg)
  ELSE IF \E i \in 1..Len(req.items) : <<"insert", "items", i>> \in F
  THEN Outcome(sqlRollback(db, r.db), FALSE, "Failed to update purchase")
  ELSE Outcome(sqlCommit(db, d3), TRUE, "updated")

RECURSIVE reverseStockLoop(_, _, _, _, _)
reverseStockLoop(db, items, i, purchaseId, F) ==
  IF i > Len(items) THEN Outcome(db, TRUE, "reversed")
  ELSE IF <<"stock", "purchase", i>> \in F
  THEN Outcome(db, FALSE, "Failed to delete purchase")
  ELSE reverseStockLoop(
         insertHistory(setStock(db, items[i].product_id,
                         GREATEST(0, stockOf(db, items[i].product_id) - items[i].quantity)),
                       items[i].product_id, -items[i].quantity, "adjustment",
                       purchaseId, <<"ledger", "purchase", i>> \in F),
         items, i + 1, purchaseId, F)

deletePurchase(db, purchaseId, F) ==
  IF ~HasRow(db.purchases, purchaseId)
  THEN Outcome(sqlRollback(db, db), FALSE, "Purchase not found or access denied")
  ELSE
  LET purchase == db.purchases[purchaseId]
      r == IF stockWasAdded(purchase.purchase_status, purchase.status)
           THEN reverseStockLoop(db, purchase.items, 1, purchaseId, F)
           ELSE Outcome(db, TRUE, "nothing to reverse")
      d2 == [r.db EXCEPT !.purchases = DropRow(@, purchaseId)]
      d3 == recordFin(d2, "purchase_deletion", purchaseId, <<"fin", "purchase", 0>> \in F) IN
  IF ~r.ok THEN Outcome(sqlRollback(db, r.db), FALSE, r.msg)
  ELSE IF <<"delete", "rows", 0>> \in F
  THEN Outcome(sqlRollback(db, r.db), FALSE, "Failed to delete purchase")
  ELSE Outcome(sqlCommit(db, d3), TRUE, "deleted")

(***************************************************************************)
(* The state machine.                                                      *)
(*   db    the committed store                                             *)
(*   pre   the store as it was when the last operation began               *)
(*   last  the last operation: its request and its result                  *)
(*   nops  the number of operations run so far                             *)
(*   impl  which of the two implementations of the sale actions is in use  *)
(*   arg, ret  argument and result of a call of a pure helper              *)
(*   tx    the call of executeInTransaction in progress                    *)
(*   calls the calls of sale actions in progress, one per caller           *)
(***************************************************************************)
VARIABLES db, pre, last, nops, impl, arg, ret, tx, calls

vars == <<db, pre, last, nops, impl, arg, ret, tx, calls>>

NoFaults == {}

Rec(op, r, id, status, items, F, req) ==
  [op |-> op, ok |-> r.ok, msg |-> r.msg, thrown |-> r.thrown, id |-> id,
   status |-> status, items |-> items, F |-> F, req |-> req]

NoOp == Rec("none", Outcome(EmptyStore, TRUE, ""), 0, Undefined, <<>>, NoFaults, [id |-> 0])

NoArg == [status |-> Undefined, baseType |-> "none"]

NoRet == [fn |-> "none", value |-> "none"]

NoError == [message |-> "undefined", at |-> "none"]

\* The locals of executeInTransaction and where it stands: retryCount, the
\* store the open scope works on, the error caught; attempts, runs and
\* errors record the BEGINs issued, the calls of operation() and the error
\* each failed attempt ended with; thrown is the error that left the call.
TxState(pc, retryCount, attempts, runs, errors, work, error, thrown) ==
  [pc |-> pc, retryCount |-> retryCount, attempts |-> attempts, runs |-> runs,
   errors |-> errors, work |-> work, error |-> error, thrown |-> thrown]

NoTx == TxState("idle", 0, 0, 0, <<>>, EmptyStore, NoError, NoError)

\* A call of a sale action by one caller: which action, its request, the
\* sale row its SELECTs returned, and where it stands.
Call(pc, op, req, original, ok) ==
  [pc |-> pc, op |-> op, req |-> req, original |-> original, ok |-> ok]

NoSale == SaleRow(Undefined, 0, 0, 0)

NoCall == Call("idle", "none", [id |-> 0], NoSale, TRUE)

NoCalls == <<>>

\* Requests the callers send.
SaleStatuses == {Lit("completed"), Lit("pending"), Lit("cancelled"), Lit("credit")}

AddItemLists ==
  {<<NewItem(1, q)>> : q \in 1..MaxQty}
  \cup {<<NewItem(1, 1), NewItem(1, 1)>>, <<NewItem(1, 1), NewItem(2, 1)>>,
        <<NewItem(3, 1)>>, <<NewItem(1, 1), NewItem(3, 1)>>, <<NewItem(4, 1)>>}

asSent(rows) ==
  [i \in 1..Len(rows) |-> UpdItem(rows[i].id, rows[i].product_id, rows[i].quantity)]

otherProduct(p) == IF p = 1 THEN 2 ELSE 1

\* The item lists an edit form can send back for a sale with the given rows.
EditedItems(rows) ==
  LET sent == asSent(rows) IN
  {sent}
  \cup {[sent EXCEPT ![1].quantity = q] : q \in 1..(MaxQty + 1)}
  \cup {[sent EXCEPT ![1].productId = otherProduct(@)]}
  \cup (IF Len(sent) > 1 THEN {SubSeq(sent, 1, Len(sent) - 1)}
        ELSE {Append(sent, UpdItem(0, p, 1)) : p \in {1, 3}})

Init ==
  /\ db = EmptyStore
  /\ pre = EmptyStore
  /\ last = NoOp
  /\ nops = 0
  /\ impl \in {1, 2}
  /\ arg = NoArg
  /\ ret = NoRet
  /\ tx = NoTx
  /\ calls = NoCalls

Ran(op, r, id, status, items, F, req) ==
  /\ db' = r.db
  /\ pre' = db
  /\ last' = Rec(op, r, id, status, items, F, req)
  /\ nops' = nops + 1
  /\ UNCHANGED <<impl, arg, ret, tx, calls>>

AddSale ==
  /\ nops < MaxOps
  /\ DOMAIN db.sales = {}
  /\ \E status \in SaleStatuses, items \in AddItemLists :
       LET req == [status |-> status, items |-> items] IN
       Ran("addSale", addSale(impl, db, req, NoFaults),
           db.nextSale, status, items, NoFaults, req)

UpdateSale ==
  /\ nops < MaxOps
  /\ \E id \in DOMAIN db.sales, status \in SaleStatuses :
       \E items \in EditedItems(db.sales[id].items) :
         \E priceChanged \in (IF items = asSent(db.sales[id].items)
                              THEN BOOLEAN ELSE {FALSE}) :
           LET req == [id |-> id, status |-> status, items |-> items,
                       priceChanged |-> priceChanged] IN
           Ran("updateSale", updateSale(impl, db, req, NoFaults),
               id, status, items, NoFaults, req)

DeleteSale ==
  /\ nops < MaxOps
  /\ \E id \in DOMAIN db.sales :
       Ran("deleteSale", deleteSale(impl, db, id, NoFaults),
           id, db.sales[id].status, <<>>, NoFaults, [id |-> id])

Next == AddSale \/ UpdateSale \/ DeleteSale

Spec == Init /\ [][Next]_vars

(***************************************************************************)
(* The pure helpers of the status policy, called on every status string.   *)
(***************************************************************************)
StatusWords ==
  {"completed", "delivered", "paid", "credit", "partial",
   "pending", "cancelled", "returned", "refunded",
   "shipped", "constructor", "__proto__", ""}

StatusInputs == {Str(w, c) : w \in StatusWords, c \in Casings} \cup {Undefined}

BaseTypes == {"sale", "sale_status_changed", "sale_returned"}

InitImpact ==
  /\ db = EmptyStore
  /\ pre = EmptyStore
  /\ last = NoOp
  /\ nops = 0
  /\ impl = 1
  /\ arg \in [status : StatusInputs, baseType : BaseTypes]
  /\ ret = NoRet
  /\ tx = NoTx
  /\ calls = NoCalls

CallShouldAffectStock ==
  /\ ret.fn = "none"
  /\ ret' = [fn |-> "shouldAffectStock", value |-> shouldAffectStock(arg.status)]
  /\ UNCHANGED <<db, pre, last, nops, impl, arg, tx, calls>>

CallGetStockHistoryType ==
  /\ ret.fn = "none"
  /\ ret' = [fn |-> "getStockHistoryType",
             value |-> getStockHistoryType(arg.baseType, arg.status)]
  /\ UNCHANGED <<db, pre, last, nops, impl, arg, tx, calls>>

NextImpact == CallShouldAffectStock \/ CallGetStockHistoryType

SpecImpact == InitImpact /\ [][NextImpact]_vars

\* C8: shouldAffectStock, matching case-insensitively, returns
\* {affectsStock: true, reduces: true} for completed, delivered, paid, credit,
\* partial and for every status string not in the table, and {false, false}
\* for pending, cancelled, returned, refunded; affectsStock always equals
\* reduces.
C8_ImpactTable ==
  ret.fn = "shouldAffectStock" =>
    /\ ret.value.affectsStock = ret.value.reduces
    /\ IF arg.status # Undefined
          /\ toLowerCase(arg.status).w \in {"pending", "cancelled", "returned", "refunded"}
       THEN ret.value = Impact(FALSE, FALSE)
       ELSE ret.value = Impact(TRUE, TRUE)

(***************************************************************************)
(* Properties of the sale actions when every statement succeeds (Spec).    *)
(***************************************************************************)
\* Sum of the quantities of the line items [productId, quantity] of product p.
RECURSIVE SumQty(_, _, _)
SumQty(items, p, i) ==
  IF i > Len(items) THEN 0
  ELSE (IF items[i].productId = p THEN items[i].quantity ELSE 0) + SumQty(items, p, i + 1)

Held(rows, p) == SumQty(asNewItems(rows), p, 1)

\* The ledger entries the last operation appended.
Appended == SubSeq(db.ledger, Len(pre.ledger) + 1, Len(db.ledger))

AppendedFor(p) == SelectSeq(Appended, LAMBDA e : e.product_id = p)

RECURSIVE SignedSum(_, _)
SignedSum(entries, i) ==
  IF i > Len(entries) THEN 0
  ELSE getQuantityDisplay(entries[i]) + SignedSum(entries, i + 1)

SaleLedger(p, saleId) ==
  SelectSeq(db.ledger, LAMBDA e : e.product_id = p /\ e.reference_type = "sale"
                                   /\ e.reference_id = saleId)

Committing == {"completed", "paid", "delivered", "credit", "partial"}

IsCommitting(status) == toLowerCase(status).w \in Committing

\* C1: after every prefix of addSale, updateSale*, deleteSale on one sale,
\* for every product the signed sum of the ledger entries appended for it
\* (magnitude as stored, direction by reason type) equals its current stock
\* minus its stock before the sequence.
C1_LedgerCompleteness ==
  db.nextSale <= 2 =>
    \A p \in Products :
      SignedSum(SaleLedger(p, 1), 1) = db.stock[p] - InitStock[p]

\* C2: a successful addSale with status pending leaves every stock
\* unchanged; with status completed it decreases each product's stock by
\* the sum of the quantities of the line items that reference it, and no
\* other product's.
C2_AddSaleStock ==
  (last.op = "addSale" /\ last.ok) =>
    /\ last.status = Lit("pending") => db.stock = pre.stock
    /\ last.status = Lit("completed") =>
         \A p \in Products : db.stock[p] = pre.stock[p] - SumQty(last.items, p, 1)

C2_Witness ==
  /\ last.op = "addSale" /\ last.ok /\ last.status = Lit("completed")
  /\ last.items = <<NewItem(1, 1), NewItem(1, 1)>>
  /\ db.stock[1] = pre.stock[1] - 2
  /\ db.stock[2] = pre.stock[2]

\* The sale_deleted entries a deletion is to append: one per product line
\* item, in order, of the given magnitude (zero: 0, else the item's quantity).
DeletedEntries(rows, saleId, zero) ==
  LET ps == SelectSeq(rows, LAMBDA r : r.product_id \in Products) IN
  [i \in 1..Len(ps) |->
     Entry(ps[i].product_id, IF zero THEN 0 ELSE ps[i].quantity,
           "sale_deleted", saleId, "sale")]

\* C4: deleteSale of a pending sale changes no stock and appends one
\* sale_deleted entry of quantity 0 per product line item; deleteSale of a
\* stock-committing sale adds back to each product the quantity the sale
\* held and appends a sale_deleted entry of that magnitude per line item.
C4_DeleteSale ==
  (last.op = "deleteSale" /\ last.ok) =>
    LET sale == pre.sales[last.id] IN
    /\ toLowerCase(sale.status) = Lit("pending") =>
         /\ db.stock = pre.stock
         /\ Appended = DeletedEntries(sale.items, last.id, TRUE)
    /\ IsCommitting(sale.status) =>
         /\ \A p \in Products : db.stock[p] = pre.stock[p] + Held(sale.items, p)
         /\ Appended = DeletedEntries(sale.items, last.id, FALSE)

C4_Witness ==
  /\ last.op = "deleteSale" /\ last.ok
  /\ IsCommitting(pre.sales[last.id].status)
  /\ Len(pre.sales[last.id].items) = 2
  /\ db.stock[1] = pre.stock[1] + 2
  /\ Len(Appended) = 2

\* The update raised the quantity of exactly one stored line item, of
\* product p, from a to b and left every other line item as it was.
RaisedOne(p, a, b) ==
  /\ last.op = "updateSale" /\ last.ok
  /\ LET rows == pre.sales[last.id].items IN
     /\ Len(last.items) = Len(rows)
     /\ \E k \in 1..Len(rows) :
          /\ rows[k].product_id = p /\ rows[k].quantity = a
          /\ last.items = [asSent(rows) EXCEPT ![k].quantity = b]

\* C5: on a sale that is stock-committing before and after, raising one
\* product's line-item quantity from a to b > a decreases that product's
\* stock by b - a and appends exactly one ledger entry for it,
\* sale_item_increased of magnitude b - a.  Stated for the updates that keep
\* the stored status, where no status-level entry is appended either.
C5_QuantityRaised ==
  \A p \in Products : \A a \in 1..(MaxQty + 1) : \A b \in (a + 1)..(MaxQty + 1) :
    (/\ RaisedOne(p, a, b)
     /\ IsCommitting(pre.sales[last.id].status)
     /\ db.sales[last.id].status = pre.sales[last.id].status) =>
      /\ db.stock[p] = pre.stock[p] - (b - a)
      /\ AppendedFor(p) = <<Entry(p, b - a, "sale_item_increased", last.id, "sale")>>

AllServices(items) == \A i \in 1..Len(items) : items[i].productId \in Services

\* C6: a line item that denotes a service never changes a product's stock
\* and never gets a ledger entry, in addSale, updateSale and deleteSale; the
\* stock mutator and the ledger append return success without effect for it.
C6_ServicesUntouched ==
  /\ \A i \in 1..Len(db.ledger) : db.ledger[i].product_id \in Products
  /\ (/\ last.op \in {"addSale", "updateSale", "deleteSale"}
      /\ AllServices(last.items)
      /\ last.id \in DOMAIN pre.sales => AllServices(asNewItems(pre.sales[last.id].items)))
       => db.stock = pre.stock /\ db.ledger = pre.ledger
  /\ (last.op = "addSale" /\ last.ok) =>
       Len(Appended) <= Cardinality({i \in 1..Len(last.items) :
                                       last.items[i].productId \in Products})
  /\ \A s \in Services :
       /\ updateProductStock(db, s, 1, "subtract", FALSE)
            = [db |-> db, success |-> TRUE, isService |-> TRUE]
       /\ createStockHistoryEntry(db, s, "sale", -1, 1, "sale", FALSE)
            = [db |-> db, success |-> TRUE]

C6_Witness ==
  /\ last.op = "updateSale" /\ last.ok
  /\ IsCommitting(db.sales[last.id].status)
  /\ Len(last.items) = 2 /\ last.items[2] = UpdItem(0, 3, 1)
  /\ Len(db.sales[last.id].items) = 2
  /\ db.stock = pre.stock /\ db.ledger = pre.ledger

(***************************************************************************)
(* Status round trips of one sale: a sale is created completed, its status *)
(* is switched between cancelled and completed with its items sent back    *)
(* unchanged, and it is deleted at some point.                             *)
(***************************************************************************)
RoundTripItemLists == AddItemLists \ {<<NewItem(4, 1)>>}

RtAddSale ==
  /\ nops = 0
  /\ \E status \in {Lit("completed"), Str("completed", "Title")},
        items \in RoundTripItemLists :
       LET req == [status |-> status, items |-> items] IN
       Ran("addSale", addSale(impl, db, req, NoFaults),
           db.nextSale, status, items, NoFaults, req)

otherStatus(status) ==
  IF toLowerCase(status) = Lit("completed") THEN Lit("cancelled") ELSE Lit("completed")

\* The prices are sent back unchanged too.  The first implementation
\* compares them as JSON text, where a stored numeric ("10.00") and a sent
\* number (10) may differ; the second compares them as numbers.
PriceComparisons == IF impl = 1 THEN BOOLEAN ELSE {FALSE}

RtToggle ==
  /\ nops <= MaxToggles
  /\ \E id \in DOMAIN db.sales, priceChanged \in PriceComparisons :
       LET status == otherStatus(db.sales[id].status)
           items == asSent(db.sales[id].items)
           req == [id |-> id, status |-> status, items |-> items,
                   priceChanged |-> priceChanged] IN
       Ran("updateSale", updateSale(impl, db, req, NoFaults),
           id, status, items, NoFaults, req)

RtDeleteSale ==
  \E id \in DOMAIN db.sales :
    Ran("deleteSale", deleteSale(impl, db, id, NoFaults),
        id, db.sales[id].status, <<>>, NoFaults, [id |-> id])

NextRoundTrip == RtAddSale \/ RtToggle \/ RtDeleteSale

SpecRoundTrip == Init /\ [][NextRoundTrip]_vars

\* C3: for a completed sale whose items are not changed, updateSale to
\* cancelled puts every product's stock back to its value before the sale
\* was created and updateSale back to completed reduces it again by the
\* same quantities; any number of such round trips accumulates no drift.
C3_RoundTrip ==
  \A id \in DOMAIN db.sales :
    /\ toLowerCase(db.sales[id].status) = Lit("cancelled") => db.stock = InitStock
    /\ toLowerCase(db.sales[id].status) = Lit("completed") =>
         \A p \in Products : db.stock[p] = InitStock[p] - Held(db.sales[id].items, p)

C3_Witness ==
  /\ nops = 5 /\ last.op = "updateSale" /\ last.ok
  /\ db.sales[1].status = Lit("completed")
  /\ pre.sales[1].status = Lit("cancelled")
  /\ pre.stock = InitStock
  /\ db.stock[1] = InitStock[1] - 2

\* The scenario of one line item {P, q}: addSale(completed);
\* updateSale(cancelled); updateSale(completed); deleteSale.  step is the
\* number of its operations done so far, q the quantity of the line item.
ScenarioStep(step, q) ==
  /\ nops = step
  /\ IF step = 4
     THEN /\ last.op = "deleteSale" /\ last.ok
          /\ asNewItems(pre.sales[1].items) = <<NewItem(1, q)>>
     ELSE /\ 1 \in DOMAIN db.sales
          /\ asNewItems(db.sales[1].items) = <<NewItem(1, q)>>

ScenarioLedger(reasons, step, q) ==
  db.ledger = [i \in 1..step |-> Entry(1, q, reasons[i], 1, "sale")]

ScenarioStock(step, q) ==
  db.stock[1] = IF step \in {1, 3} THEN InitStock[1] - q ELSE InitStock[1]

\* C7 as stated: the stocks after the four steps are s-q, s, s-q, s and each
\* step appends exactly one entry of magnitude q for P, with the reasons
\* sale_completed, sale_returned, sale_status_changed, sale_deleted.
C7_ScenarioReturned ==
  \A step \in 1..4 : \A q \in 1..MaxQty :
    ScenarioStep(step, q) =>
      /\ ScenarioStock(step, q)
      /\ ScenarioLedger(<<"sale_completed", "sale_returned",
                          "sale_status_changed", "sale_deleted">>, step, q)

\* C7, amended: the same stocks and one entry of magnitude q per step, with
\* the reasons sale_completed, sale_cancelled, sale_status_changed,
\* sale_deleted.
C7_ScenarioCancelled ==
  \A step \in 1..4 : \A q \in 1..MaxQty :
    ScenarioStep(step, q) =>
      /\ ScenarioStock(step, q)
      /\ ScenarioLedger(<<"sale_completed", "sale_cancelled",
                          "sale_status_changed", "sale_deleted">>, step, q)

C7_Witness ==
  /\ ScenarioStep(4, 2)
  /\ db.stock = InitStock
  /\ Len(db.ledger) = 4
  /\ db.ledger[2].type = "sale_cancelled"
  /\ db.ledger[4] = Entry(1, 2, "sale_deleted", 1, "sale")

(***************************************************************************)
(* Executions in which a statement may throw (SpecFault): every operation  *)
(* of the sale and the purchase actions runs with a set F of failing       *)
(* statements, at most one per operation.                                  *)
(***************************************************************************)
FaultSets(points) == {NoFaults} \cup {{f} : f \in points}

AddSaleFaults ==
  FaultSets({<<"stock", "status", 1>>, <<"ledger", "status", 1>>,
             <<"insert", "items", 1>>, <<"fin", "sale", 0>>})

UpdateSaleFaults ==
  FaultSets({<<"stock", "status", 1>>, <<"ledger", "status", 1>>,
             <<"stock", "items", 1>>, <<"ledger", "items", 1>>,
             <<"insert", "items", 1>>, <<"update", "sale", 0>>,
             <<"fin", "sale", 0>>})

DeleteSaleFaults ==
  FaultSets({<<"stock", "status", 1>>, <<"ledger", "status", 1>>,
             <<"delete", "rows", 0>>, <<"fin", "sale", 0>>})

PurchaseFaults ==
  FaultSets({<<"stock", "purchase", 1>>, <<"ledger", "purchase", 1>>,
             <<"insert", "items", 1>>, <<"fin", "purchase", 0>>})

DeletePurchaseFaults ==
  FaultSets({<<"stock", "purchase", 1>>, <<"ledger", "purchase", 1>>,
             <<"delete", "rows", 0>>, <<"fin", "purchase", 0>>})

FaultSaleStatuses == {Lit("completed"), Lit("pending")}

FaultItemLists ==
  {<<NewItem(1, 1)>>, <<NewItem(1, 1), NewItem(2, 1)>>, <<NewItem(1, 1), NewItem(4, 1)>>}

PaymentStatuses == {Str("credit", "Title"), Str("cancelled", "Title")}

PurchaseStatuses == {Str("delivered", "Title"), Str("pending", "Title")}

PurchaseItemLists ==
  {<<PItem(1, q)>> : q \in 1..MaxQty} \cup {<<PItem(1, 1), PItem(2, 1)>>}

FAddSale ==
  /\ nops < MaxFaultOps
  /\ DOMAIN db.sales = {}
  /\ \E status \in FaultSaleStatuses, items \in FaultItemLists, F \in AddSaleFaults :
       LET req == [status |-> status, items |-> items] IN
       Ran("addSale", addSale(impl, db, req, F), db.nextSale, status, items, F, req)

FUpdateSale ==
  /\ nops < MaxFaultOps
  /\ \E id \in DOMAIN db.sales, status \in FaultSaleStatuses, F \in UpdateSaleFaults :
       \E items \in EditedItems(db.sales[id].items) :
         LET req == [id |-> id, status |-> status, items |-> items,
                     priceChanged |-> FALSE] IN
         Ran("updateSale", updateSale(impl, db, req, F), id, status, items, F, req)

FDeleteSale ==
  /\ nops < MaxFaultOps
  /\ \E id \in DOMAIN db.sales, F \in DeleteSaleFaults :
       Ran("deleteSale", deleteSale(impl, db, id, F),
           id, db.sales[id].status, <<>>, F, [id |-> id])

FCreatePurchase ==
  /\ nops < MaxFaultOps
  /\ DOMAIN db.purchases = {}
  /\ \E status \in PaymentStatuses, ps \in PurchaseStatuses,
        items \in PurchaseItemLists, F \in PurchaseFaults :
       LET req == [status |-> status, purchase_status |-> ps, items |-> items,
                   total_amount |-> 1] IN
       Ran("createPurchase", createPurchase(db, req, F),
           db.nextPurchase, status, <<>>, F, req)

FUpdatePurchase ==
  /\ nops < MaxFaultOps
  /\ \E id \in DOMAIN db.purchases, status \in PaymentStatuses,
        ps \in PurchaseStatuses, items \in PurchaseItemLists, F \in PurchaseFaults :
       LET req == [id |-> id, status |-> status, purchase_status |-> ps,
                   items |-> items, total_amount |-> 1] IN
       Ran("updatePurchase", updatePurchase(db, req, F), id, status, <<>>, F, req)

FDeletePurchase ==
  /\ nops < MaxFaultOps
  /\ \E id \in DOMAIN db.purchases, F \in DeletePurchaseFaults :
       Ran("deletePurchase", deletePurchase(db, id, F),
           id, db.purchases[id].status, <<>>, F, [id |-> id])

NextFault ==
  \/ FAddSale \/ FUpdateSale \/ FDeleteSale
  \/ FCreatePurchase \/ FUpdatePurchase \/ FDeletePurchase

SpecFault == Init /\ [][NextFault]_vars

\* What the last operation does to the store it began with when no
\* statement throws.
Redo ==
  CASE last.op = "addSale" -> addSale(impl, pre, last.req, NoFaults)
    [] last.op = "updateSale" -> updateSale(impl, pre, last.req, NoFaults)
    [] last.op = "deleteSale" -> deleteSale(impl, pre, last.id, NoFaults)
    [] last.op = "createPurchase" -> createPurchase(pre, last.req, NoFaults)
    [] last.op = "updatePurchase" -> updatePurchase(pre, last.req, NoFaults)
    [] last.op = "deletePurchase" -> deletePurchase(pre, last.id, NoFaults)
    [] OTHER -> Outcome(pre, TRUE, "")

\* The transaction rows, the stocks and the ledger of a store.
Effects(d) ==
  [stock |-> d.stock, ledger |-> d.ledger, sales |-> d.sales, purchases |-> d.purchases]

\* C9: at the return of each of the six operations, also when a step failed
\* midway, either all of its row changes, stock changes and ledger appends
\* are in effect or none of them is; and none is after a failure result.
C9_AllOrNothing ==
  last.op # "none" =>
    /\ Effects(db) = Effects(Redo.db) \/ Effects(db) = Effects(pre)
    /\ ~last.ok => Effects(db) = Effects(pre)

IsSaleOp == last.op \in {"addSale", "updateSale", "deleteSale"}

\* C10: every change the last operation made to a product's stock has a
\* ledger entry for that product and that transaction, appended by the
\* same operation.
C10_StockChangeHasEntry ==
  last.op # "none" =>
    \A p \in Products :
      db.stock[p] # pre.stock[p] =>
        \E i \in 1..Len(Appended) :
          /\ Appended[i].product_id = p
          /\ Appended[i].reference_id = last.id
          /\ Appended[i].reference_type = IF IsSaleOp THEN "sale" ELSE "purchase"

IsPrefix(s, t) == Len(s) <= Len(t) /\ SubSeq(t, 1, Len(s)) = s

\* C11: the stock ledger is append-only.  No step of a sale or purchase
\* operation changes or removes an existing entry: the ledger before a step
\* is a prefix of the ledger after it, so the ledger of every later state
\* extends the ledger of every earlier one; deleteSale and deletePurchase
\* keep the earlier entries of the transaction they delete.
C11_AppendOnly == [][IsPrefix(db.ledger, db'.ledger)]_vars

C11_Witness ==
  /\ last.op = "deleteSale" /\ last.ok
  /\ \E i \in 1..Len(pre.ledger) :
       /\ pre.ledger[i].reference_type = "sale"
       /\ pre.ledger[i].reference_id = last.id
       /\ db.ledger[i] = pre.ledger[i]
  /\ last.id \notin DOMAIN db.sales
  /\ Len(db.ledger) > Len(pre.ledger)
  /\ db.ledger[Len(db.ledger)].type = "sale_deleted"

(***************************************************************************)
(* Requests of every shape (SpecRequests): one sale or one purchase is     *)
(* created, then updated or deleted, by callers that also send item ids    *)
(* that are not in the catalog, quantities <= 0 and received amounts above *)
(* the total.  Every statement succeeds.                                   *)
(***************************************************************************)
ReqSaleStatuses == {Lit("completed"), Lit("pending"), Lit("credit"), Lit("partial")}

ReqItemLists ==
  {<<NewItem(1, 1)>>, <<NewItem(1, 2)>>, <<NewItem(1, 1), NewItem(1, 1)>>,
   <<NewItem(1, 1), NewItem(4, 1)>>, <<NewItem(4, 1)>>,
   <<NewItem(1, 0)>>, <<NewItem(1, -1)>>}

ReceivedAmounts == {0, 1, MaxQty + 3}

\* An update can also release the sale.
ReqUpdateStatuses ==
  ReqSaleStatuses \cup {Lit("cancelled"), Lit("returned"), Lit("refunded")}

\* The item lists a caller can send for a sale with the given rows.
ReqEditedItems(rows) ==
  LET sent == asSent(rows) IN
  {sent}
  \cup {[sent EXCEPT ![1].quantity = q] : q \in {-1, 0, 2}}
  \cup {Append(sent, UpdItem(0, p, 1)) : p \in {1, 4}}
  \cup (IF Len(sent) > 1 THEN {SubSeq(sent, 1, Len(sent) - 1)} ELSE {})

ReqPaymentStatuses ==
  {Str("credit", "Title"), Str("cancelled", "Title"), Lit("cancelled"), Str("paid", "Title")}

ReqPurchaseStatuses == {Str("delivered", "Title"), Lit("delivered"), Str("pending", "Title")}

ReqPurchaseItemLists ==
  {<<PItem(1, 1)>>, <<PItem(1, 2)>>, <<PItem(1, 1), PItem(1, 1)>>,
   <<PItem(1, 1), PItem(2, 1)>>, <<PItem(1, 0)>>, <<PItem(1, -1)>>}

PurchaseTotal == 2

ReqAddSale ==
  /\ nops = 0
  /\ \E status \in ReqSaleStatuses, items \in ReqItemLists, r \in ReceivedAmounts :
       LET req == [status |-> status, items |-> items, receivedAmount |-> r] IN
       Ran("addSale", addSale(impl, db, req, NoFaults),
           db.nextSale, status, items, NoFaults, req)

ReqUpdateSale ==
  /\ nops = 1
  /\ \E id \in DOMAIN db.sales, status \in ReqUpdateStatuses, r \in ReceivedAmounts :
       \E items \in ReqEditedItems(db.sales[id].items) :
         LET req == [id |-> id, status |-> status, items |-> items,
                     priceChanged |-> FALSE, receivedAmount |-> r] IN
         Ran("updateSale", updateSale(impl, db, req, NoFaults),
             id, status, items, NoFaults, req)

ReqDeleteSale ==
  /\ nops \in {1, 2}
  /\ \E id \in DOMAIN db.sales \cup {db.nextSale} :
       Ran("deleteSale", deleteSale(impl, db, id, NoFaults),
           id, Undefined, <<>>, NoFaults, [id |-> id])

\* The purchase actions exist once, in the file of the second implementation.
ReqCreatePurchase ==
  /\ nops = 0
  /\ impl = 2
  /\ \E status \in ReqPaymentStatuses, ps \in ReqPurchaseStatuses,
        items \in ReqPurchaseItemLists, r \in {0, PurchaseTotal + 1} :
       LET req == [status |-> status, purchase_status |-> ps, items |-> items,
                   total_amount |-> PurchaseTotal, received_amount |-> r] IN
       Ran("createPurchase", createPurchase(db, req, NoFaults),
           db.nextPurchase, status, <<>>, NoFaults, req)

ReqUpdatePurchase ==
  /\ nops = 1
  /\ \E id \in DOMAIN db.purchases, status \in ReqPaymentStatuses,
        ps \in ReqPurchaseStatuses, items \in ReqPurchaseItemLists,
        r \in {0, PurchaseTotal + 1} :
       LET req == [id |-> id, status |-> status, purchase_status |-> ps,
                   items |-> items, total_amount |-> PurchaseTotal,
                   received_amount |-> r] IN
       Ran("updatePurchase", updatePurchase(db, req, NoFaults),
           id, status, <<>>, NoFaults, req)

ReqDeletePurchase ==
  /\ nops \in {1, 2}
  /\ \E id \in DOMAIN db.purchases \cup {db.nextPurchase} :
       Ran("deletePurchase", deletePurchase(db, id, NoFaults),
           id, Undefined, <<>>, NoFaults, [id |-> id])

NextRequests ==
  \/ ReqAddSale \/ ReqUpdateSale \/ ReqDeleteSale
  \/ ReqCreatePurchase \/ ReqUpdatePurchase \/ ReqDeletePurchase

SpecRequests == Init /\ [][NextRequests]_vars

HasUnknownId(items) == \E i \in 1..Len(items) : items[i].productId \in UnknownIds

\* C12: addSale and updateSale called with an item list that contains an id
\* which is neither a product nor a service return a failure result and
\* leave the sale row, the sale items, every stock and the ledger as they
\* were before the call.
C12_UnknownIdRejected ==
  (last.op \in {"addSale", "updateSale"} /\ HasUnknownId(last.items)) =>
    ~last.ok /\ Effects(db) = Effects(pre)

\* C13: no sale and no purchase is ever stored with a received amount
\* greater than its total.
C13_ReceivedWithinTotal ==
  /\ \A id \in DOMAIN db.sales :
       db.sales[id].received_amount <= db.sales[id].total_amount
  /\ \A id \in DOMAIN db.purchases :
       db.purchases[id].received_amount <= db.purchases[id].total_amount

HasNonPositiveQuantity(items) == \E i \in 1..Len(items) : items[i].quantity <= 0

\* C14: addSale, updateSale, createPurchase and updatePurchase called with
\* a line item whose quantity is zero or negative return a failure result
\* and change no stock, no ledger entry and no stored row.
C14_NonPositiveQuantityRejected ==
  (/\ last.op \in {"addSale", "updateSale", "createPurchase", "updatePurchase"}
   /\ HasNonPositiveQuantity(last.req.items)) =>
    /\ ~last.thrown /\ ~last.ok
    /\ Effects(db) = Effects(pre)

\* C15: every operation ends by returning a result with a success flag
\* and, on failure, a message; none lets an exception reach its caller.
C15_AlwaysReturnsResult ==
  last.op # "none" =>
    /\ ~last.thrown
    /\ ~last.ok => last.msg # ""

(***************************************************************************)
(* executeInTransaction (new-purchase-modal.tsx:1460): BEGIN, operation(), *)
(* COMMIT in a loop that retries after a connection or timeout error.      *)
(* The operation takes one unit of product 1 from the stock; BEGIN, the    *)
(* operation and COMMIT may each throw.  The scope is the one of the       *)
(* store: ROLLBACK drops the work of the attempt.                          *)
(***************************************************************************)
maxRetries == 3

\* The messages of the errors thrown; "undefined" is an error that has no
\* message property.
ErrorMessages ==
  {"connection reset by peer", "query timeout", "Connection terminated unexpectedly",
   "duplicate key value", "undefined"}

\* message.includes(word): the search is case-sensitive.
includes(message, word) ==
  \/ word = "connection" /\ message = "connection reset by peer"
  \/ word = "timeout" /\ message = "query timeout"

isTransientAlways(error) == TRUE

\* error.message?.includes('connection') || error.message?.includes('timeout')
isTransient(error) ==
  /\ error.message # "undefined"
  /\ includes(error.message, "connection") \/ includes(error.message, "timeout")

Failure(message, at) == [message |-> message, at |-> at]

InitRetry ==
  /\ db = EmptyStore
  /\ pre = EmptyStore
  /\ last = NoOp
  /\ nops = 0
  /\ impl = 2
  /\ arg = NoArg
  /\ ret = NoRet
  /\ tx = NoTx
  /\ calls = NoCalls

TxStep(next) ==
  /\ tx' = next
  /\ UNCHANGED <<db, pre, last, nops, impl, arg, ret, calls>>

\* let retryCount = 0
TxCall ==
  /\ tx.pc = "idle"
  /\ TxStep([NoTx EXCEPT !.pc = "while"])

\* while (retryCount < maxRetries)
TxWhile ==
  /\ tx.pc = "while"
  /\ TxStep([tx EXCEPT !.pc = IF tx.retryCount < maxRetries THEN "begin" ELSE "returned"])

\* await sql`BEGIN`: the scope works on the committed store, or goes on with
\* the statements of a scope that was neither committed nor rolled back.
TxBegin ==
  /\ tx.pc = "begin"
  /\ \/ TxStep([tx EXCEPT !.pc = "operation", !.attempts = @ + 1])
     \/ \E m \in ErrorMessages :
          TxStep([tx EXCEPT !.pc = "catch", !.attempts = @ + 1,
                            !.error = Failure(m, "BEGIN")])

\* The closure passed as operation: it reads the stock of product 1 and
\* takes one unit, then appends the ledger entry.  upTo is the number of
\* its statements that ran before it threw.
runOperation(work, upTo) ==
  LET stocked == updateProductStock(work, 1, 1, "subtract", FALSE).db IN
  IF upTo = 0 THEN work
  ELSE IF upTo = 1 THEN stocked
  ELSE createStockHistoryEntry(stocked, 1, "sale_completed", 1, 1, "sale", FALSE).db

\* const result = await operation()
TxOperation ==
  /\ tx.pc = "operation"
  /\ \/ TxStep([tx EXCEPT !.pc = "commit", !.runs = @ + 1, !.work = runOperation(@, 2)])
     \/ \E m \in ErrorMessages, upTo \in 0..2 :
          TxStep([tx EXCEPT !.pc = "catch", !.runs = @ + 1, !.work = runOperation(@, upTo),
                            !.error = Failure(m, "operation")])

\* await sql`COMMIT`; return result
TxCommit ==
  /\ tx.pc = "commit"
  /\ \/ /\ db' = sqlCommit(db, tx.work)
        /\ tx' = [tx EXCEPT !.pc = "returned"]
        /\ UNCHANGED <<pre, last, nops, impl, arg, ret, calls>>
     \/ \E m \in ErrorMessages :
          TxStep([tx EXCEPT !.pc = "catch", !.error = Failure(m, "COMMIT")])

\* A catch block that leaves the scope of the failed attempt open.
catchNoRollback(committed, work) == work

\* await sql`ROLLBACK` in the catch block.
catchRollback(committed, work) == sqlRollback(committed, work)

\* catch (error): ROLLBACK, then retry or throw.
TxCatch ==
  /\ tx.pc = "catch"
  /\ LET rolledBack == [tx EXCEPT !.work = catchRollback(db, tx.work),
                                  !.errors = Append(@, tx.error)] IN
     IF isTransient(tx.error)
     THEN IF tx.retryCount + 1 < maxRetries
          THEN TxStep([rolledBack EXCEPT !.retryCount = @ + 1, !.pc = "backoff"])
          ELSE TxStep([rolledBack EXCEPT !.retryCount = @ + 1, !.pc = "thrown",
                                         !.thrown = tx.error])
     ELSE TxStep([rolledBack EXCEPT !.pc = "thrown", !.thrown = tx.error])

\* await new Promise(resolve => setTimeout(resolve, 2 ** retryCount * 100)); continue
TxBackoff ==
  /\ tx.pc = "backoff"
  /\ TxStep([tx EXCEPT !.pc = "while"])

NextRetry == TxCall \/ TxWhile \/ TxBegin \/ TxOperation \/ TxCommit \/ TxCatch \/ TxBackoff

\* The event loop runs every continuation that is ready.
SpecRetry == InitRetry /\ [][NextRetry]_vars /\ WF_vars(NextRetry)

\* An error that indicates a connection or timeout problem.
ConnectionOrTimeout(error) ==
  error.message \in {"connection reset by peer", "query timeout",
                     "Connection terminated unexpectedly"}

TxEnded == tx.pc \in {"returned", "thrown"}

RetrySafe ==
  /\ tx.runs <= 3 /\ tx.attempts <= 3
  /\ \A k \in 1..Len(tx.errors) :
       \/ ConnectionOrTimeout(tx.errors[k]) /\ k < 3
       \/ /\ k = Len(tx.errors) /\ k = tx.attempts
          /\ tx.pc = "thrown" /\ tx.thrown = tx.errors[k]
  /\ tx.attempts <= Len(tx.errors) + 1
  /\ tx.pc = "returned" => tx.attempts = Len(tx.errors) + 1

NonCritical(F) == F # {} /\ \A f \in F : f[1] \in {"ledger", "fin"}

\* C17: a failure of a ledger insert for one item, or of the call of the
\* financial recorder, does not abort the operation: the operation returns
\* what it returns when nothing fails, and the transaction rows and all the
\* stock changes are committed as they are then.
C17_NonCriticalFailureTolerated ==
  (last.op # "none" /\ NonCritical(last.F)) =>
    /\ last.ok = Redo.ok /\ ~last.thrown
    /\ db.stock = Redo.db.stock
    /\ db.sales = Redo.db.sales
    /\ db.purchases = Redo.db.purchases

C17_Witness ==
  /\ last.op = "addSale" /\ last.ok
  /\ last.F = {<<"ledger", "status", 1>>}
  /\ db.stock[1] < pre.stock[1]
  /\ last.id \in DOMAIN db.sales
  /\ Len(db.ledger) < Len(Redo.db.ledger)

\* Sum of the quantities of the purchase items [product_id, quantity] of p.
RECURSIVE SumPurchased(_, _, _)
SumPurchased(items, p, i) ==
  IF i > Len(items) THEN 0
  ELSE (IF items[i].product_id = p THEN items[i].quantity ELSE 0)
       + SumPurchased(items, p, i + 1)

PurchaseEntries(items, purchaseId) ==
  [i \in 1..Len(items) |->
     Entry(items[i].product_id, items[i].quantity, "purchase", purchaseId, "purchase")]

Delivered(req) == req.purchase_status.w = "delivered"

PaymentCancelled(req) == req.status.w = "cancelled"

\* C18: createPurchase adds to the stock of each line item's product the
\* item's quantity, and appends a purchase ledger entry for it, if and only
\* if the purchase status is delivered and the payment status is not
\* cancelled, in any casing; otherwise it changes no stock and appends no
\* ledger entry.
C18_CreatePurchaseStock ==
  last.op = "createPurchase" =>
    IF last.ok /\ Delivered(last.req) /\ ~PaymentCancelled(last.req)
    THEN /\ \A p \in Products :
              db.stock[p] = pre.stock[p] + SumPurchased(last.req.items, p, 1)
         /\ Appended = PurchaseEntries(last.req.items, last.id)
    ELSE db.stock = pre.stock /\ db.ledger = pre.ledger

C18_Witness ==
  /\ last.op = "createPurchase" /\ last.ok
  /\ last.req.purchase_status = Lit("delivered")
  /\ last.req.status = Str("credit", "Title")
  /\ last.req.items = <<PItem(1, 1), PItem(1, 1)>>
  /\ db.stock[1] = pre.stock[1] + 2
  /\ Len(Appended) = 2

StockAdding(row) == Delivered(row) /\ ~PaymentCancelled(row)

\* C19: merge before diff.  The stock delta an update applies to a product
\* is the sum of its quantities in the new item list minus the sum of its
\* quantities in the old one: subtracted by updateSale on a sale that stays
\* stock-committing, added by updatePurchase on a purchase that stays
\* stock-adding; re-submitting the stored list applies a delta of zero.
C19_MergeBeforeDiff ==
  /\ (/\ last.op = "updateSale" /\ last.ok
      /\ IsCommitting(pre.sales[last.id].status)
      /\ IsCommitting(db.sales[last.id].status)) =>
       \A p \in Products :
         db.stock[p] = pre.stock[p]
                       - (SumQty(last.items, p, 1) - Held(pre.sales[last.id].items, p))
  /\ (/\ last.op = "updatePurchase" /\ last.ok
      /\ StockAdding(pre.purchases[last.id])
      /\ StockAdding(db.purchases[last.id])) =>
       \A p \in Products :
         db.stock[p] = pre.stock[p]
                       + (SumPurchased(last.req.items, p, 1)
                          - SumPurchased(pre.purchases[last.id].items, p, 1))

(***************************************************************************)
(* Two callers edit one sale at the same time (SpecConcurrent).  A call    *)
(* opens its scope and reads the sale and its items; later it issues its   *)
(* statements and commits.  The action takes no lock and checks no         *)
(* version, so what happens to the second writer is up to the store: it    *)
(* either lets the statements act on the rows as they are now, or, if it   *)
(* lets the first committer win, fails them, and the call rolls back.      *)
(***************************************************************************)
Callers == {1, 2}

ConcurrentStatuses == {Lit("completed"), Lit("cancelled")}

\* The sale the two callers edit: created by addSale with one line item.
SaleToEdit(i, status) ==
  addSale(i, EmptyStore, [status |-> status, items |-> <<NewItem(1, 1)>>], NoFaults).db

InitConcurrent ==
  /\ impl \in {1, 2}
  /\ \E status \in ConcurrentStatuses : db = SaleToEdit(impl, status)
  /\ pre = db
  /\ last = NoOp
  /\ nops = 0
  /\ arg = NoArg
  /\ ret = NoRet
  /\ tx = NoTx
  /\ calls = [c \in Callers |-> NoCall]

CallStep(c, call, store) ==
  /\ calls' = [calls EXCEPT ![c] = call]
  /\ db' = store
  /\ UNCHANGED <<pre, last, nops, impl, arg, ret, tx>>

\* BEGIN and the SELECTs of the sale row and of its items.
ReadSale(c, op, req) ==
  IF HasRow(db.sales, req.id)
  THEN CallStep(c, Call("read", op, req, db.sales[req.id], TRUE), db)
  ELSE CallStep(c, Call("done", op, req, NoSale, FALSE), db)

\* The caller's form was loaded from the sale as it stood before the calls.
CallUpdateSale(c) ==
  /\ calls[c].pc = "idle"
  /\ \E status \in ConcurrentStatuses, q \in 1..(MaxQty + 1) :
       ReadSale(c, "updateSale",
                [id |-> 1, status |-> status, priceChanged |-> FALSE,
                 items |-> [asSent(pre.sales[1].items) EXCEPT ![1].quantity = q]])

CallDeleteSale(c) ==
  /\ calls[c].pc = "idle"
  /\ \A o \in Callers : calls[o].op # "deleteSale"
  /\ ReadSale(c, "deleteSale", [id |-> 1])

\* The statements after the SELECTs, and COMMIT.
WriteSale(c) ==
  /\ calls[c].pc = "read"
  /\ LET call == calls[c]
         r == IF call.op = "updateSale"
              THEN updateSaleFrom(impl, db, call.original, call.req, NoFaults)
              ELSE deleteSaleFrom(impl, db, call.original, call.req.id, NoFaults) IN
     CallStep(c, [call EXCEPT !.pc = "done", !.ok = r.ok], r.db)

\* The row the call read is no longer what the store holds.
RowChanged(c) ==
  IF HasRow(db.sales, calls[c].req.id)
  THEN db.sales[calls[c].req.id] # calls[c].original
  ELSE TRUE

\* The store fails a statement of the call because the row it read has been
\* changed by a scope that committed since; the call rolls back.
WriteConflict(c) ==
  /\ calls[c].pc = "read"
  /\ RowChanged(c)
  /\ CallStep(c, [calls[c] EXCEPT !.pc = "done", !.ok = FALSE], sqlRollback(db, db))

NextConcurrent ==
  \E c \in Callers :
    CallUpdateSale(c) \/ CallDeleteSale(c) \/ WriteSale(c) \/ WriteConflict(c)

SpecConcurrent == InitConcurrent /\ [][NextConcurrent]_vars

\* The quantity of product p a stored sale keeps out of the stock.
HeldBy(row, p) == IF IsCommitting(row.status) THEN Held(row.items, p) ELSE 0

BothDone == \A c \in Callers : calls[c].pc = "done"

\* C20: for every interleaving of two updateSale calls, or of an updateSale
\* and a deleteSale, on one sale, once both have finished every product's
\* stock is its stock before the two calls plus the quantity the sale held
\* before them minus the quantity its final stored state holds (zero if
\* the sale no longer exists).
C20_ConcurrentEdits ==
  BothDone =>
    \A p \in Products :
      db.stock[p] = pre.stock[p] + HeldBy(pre.sales[1], p)
                    - (IF HasRow(db.sales, 1) THEN HeldBy(db.sales[1], p) ELSE 0)

(***************************************************************************)
(* addSale step by step, for the place of the financial recorder in its    *)
(* scope (SpecRecorder).  The first implementation awaits                  *)
(* recordSaleTransaction before COMMIT; the second one calls               *)
(* recordSaleTransactionAsync, which only sets a timer whose callback      *)
(* calls the recorder.  COMMIT may throw, and the catch block rolls back.  *)
(* tx holds the scope of the call, calls the timers that are set.          *)
(***************************************************************************)
RecorderStatuses == {Lit("completed"), Lit("pending")}

RecorderItemLists == {<<NewItem(1, 1)>>, <<NewItem(1, 1), NewItem(2, 1)>>, <<NewItem(4, 1)>>}

InitRecorder ==
  /\ db = EmptyStore
  /\ pre = EmptyStore
  /\ last = NoOp
  /\ nops = 0
  /\ impl \in {1, 2}
  /\ arg = NoArg
  /\ ret = NoRet
  /\ tx = NoTx
  /\ calls = <<>>

\* The statements of addSale before the recorder call: the run of addSale
\* to which the recorder adds nothing.
beforeRecorder(i, store, req) == addSale(i, store, req, {<<"fin", "sale", 0>>})

ScopeOpen == tx.pc \in {"recorder", "commit"}

\* BEGIN, validation, the inserts, the stock changes and the ledger entries.
RecAddSale ==
  /\ tx.pc \in {"idle", "returned"}
  /\ nops < MaxOps
  /\ \E status \in RecorderStatuses, items \in RecorderItemLists :
       LET r == beforeRecorder(impl, db, [status |-> status, items |-> items]) IN
       /\ tx' = [NoTx EXCEPT !.pc = IF r.ok THEN "recorder" ELSE "returned",
                             !.work = r.db, !.runs = db.nextSale]
       /\ pre' = db
       /\ nops' = nops + 1
       /\ UNCHANGED <<db, last, impl, arg, ret, calls>>

\* try { await recordSaleTransaction(...) } catch { log }
RecAwaitRecorder ==
  /\ tx.pc = "recorder" /\ impl = 1
  /\ \E fail \in BOOLEAN :
       tx' = [tx EXCEPT !.pc = "commit", !.work = recordFin(@, "sale", tx.runs, fail)]
  /\ UNCHANGED <<db, pre, last, nops, impl, arg, ret, calls>>

\* recordSaleTransactionAsync: setTimeout(async () => { ... }, 0)
RecSetTimeout ==
  /\ tx.pc = "recorder" /\ impl = 2
  /\ tx' = [tx EXCEPT !.pc = "commit"]
  /\ calls' = Append(calls, tx.runs)
  /\ UNCHANGED <<db, pre, last, nops, impl, arg, ret>>

\* await sql`COMMIT`, or the catch block: await sql`ROLLBACK`; throw error
RecCommit ==
  /\ tx.pc = "commit"
  /\ \/ db' = sqlCommit(db, tx.work) /\ tx' = [tx EXCEPT !.pc = "returned"]
     \/ /\ db' = sqlRollback(db, tx.work)
        /\ tx' = [tx EXCEPT !.pc = "returned", !.work = db,
                            !.thrown = Failure("connection reset by peer", "COMMIT")]
  /\ UNCHANGED <<pre, last, nops, impl, arg, ret, calls>>

\* The callback of the timer: recordSaleTransaction writes through the same
\* sql client, into the scope if one is open, on its own otherwise.
RecTimerFires ==
  /\ calls # <<>>
  /\ \E fail \in BOOLEAN :
       IF ScopeOpen
       THEN /\ tx' = [tx EXCEPT !.work = recordFin(@, "sale", Head(calls), fail)]
            /\ UNCHANGED db
       ELSE /\ db' = recordFin(db, "sale", Head(calls), fail)
            /\ UNCHANGED tx
  /\ calls' = Tail(calls)
  /\ UNCHANGED <<pre, last, nops, impl, arg, ret>>

NextRecorder ==
  RecAddSale \/ RecAwaitRecorder \/ RecSetTimeout \/ RecCommit \/ RecTimerFires

SpecRecorder == InitRecorder /\ [][NextRecorder]_vars

\* C22: the call of the financial recorder happens inside the scope of its
\* operation, before the commit or rollback: once the scope is closed no
\* recorder call is still to come, and the committed store never holds a
\* financial record of a sale whose scope did not commit.
C22_RecorderInsideScope ==
  /\ ~ScopeOpen => calls = <<>>
  /\ \A f \in db.fin : f[1] = "sale" => HasRow(db.sales, f[2])

\* A financial record of a sale that was rolled back.
RecordOfRolledBackSale ==
  /\ tx.pc = "returned" /\ tx.thrown # NoError
  /\ \E f \in db.fin : f[1] = "sale" /\ ~HasRow(db.sales, f[2])

\* C23: after every successful updateSale, every product's stock is its
\* stock before plus the quantity the sale held before minus the quantity
\* the stored sale holds now, where a sale holds the sum of its stored line
\* items for the product if its stored status is stock-committing, else 0.
C23_DeltaAgainstPrevious ==
  (last.op = "updateSale" /\ last.ok) =>
    \A p \in Products :
      db.stock[p] = pre.stock[p] + HeldBy(pre.sales[last.id], p)
                                 - HeldBy(db.sales[last.id], p)

\* The reason the item-level reconciliation owes a product whose quantity
\* in the sale goes from old to new.
ItemReason(old, new) ==
  IF old = 0 THEN "sale_item_added"
  ELSE IF new = 0 THEN "sale_item_removed"
  ELSE IF new > old THEN "sale_item_increased"
  ELSE "sale_item_decreased"

\* C24: in an update of a sale that stays stock-committing (stated for the
\* updates that keep the stored status, where only the item-level
\* reconciliation appends), each product gets no ledger entry if its summed
\* quantity in the sale is unchanged and otherwise exactly one, whose reason
\* is sale_item_added if the product is new to the sale,
\* sale_item_increased if its quantity grew, sale_item_removed if it was
\* dropped entirely and sale_item_decreased if it remains with less.
C24_OneEntryPerProduct ==
  (/\ last.op = "updateSale" /\ last.ok
   /\ IsCommitting(pre.sales[last.id].status)
   /\ db.sales[last.id].status = pre.sales[last.id].status) =>
    \A p \in Products :
      LET old == Held(pre.sales[last.id].items, p)
          new == Held(db.sales[last.id].items, p) IN
      IF old = new THEN AppendedFor(p) = <<>>
      ELSE /\ Len(AppendedFor(p)) = 1
           /\ AppendedFor(p)[1].type = ItemReason(old, new)

Released == {"cancelled", "returned", "refunded"}

\* updateSale moved a pending sale to a released status, items unchanged.
PendingReleased ==
  /\ last.op = "updateSale" /\ last.ok
  /\ pre.sales[last.id].status = Lit("pending")
  /\ db.sales[last.id].status.w \in Released
  /\ last.items = asSent(pre.sales[last.id].items)

\* The entries appended are one per product line item, of quantity 0, and
\* their reason is the given one.
ZeroEntryPerItem(reason) ==
  /\ Len(Appended) = Len(SelectSeq(pre.sales[last.id].items,
                                   LAMBDA row : row.product_id \in Products))
  /\ \A k \in 1..Len(Appended) :
       /\ Appended[k].quantity = 0 /\ Appended[k].type = reason
       /\ Appended[k].reference_id = last.id
  /\ \A p \in Products :
       Len(AppendedFor(p)) = Len(SelectSeq(pre.sales[last.id].items,
                                           LAMBDA row : row.product_id = p))

\* C25 as stated: an updateSale that moves a sale from pending to cancelled,
\* returned or refunded with unchanged items changes no stock and appends,
\* per product line item, one entry of quantity 0 with reason
\* sale_status_changed.
C25_ReleasedStatusChanged ==
  PendingReleased => db.stock = pre.stock /\ ZeroEntryPerItem("sale_status_changed")

\* C25: an updateSale that moves a sale from pending to cancelled, returned
\* or refunded with unchanged items changes no stock and appends, per
\* product line item, one entry of quantity 0 whose reason is
\* sale_cancelled for cancelled and sale_returned for returned and refunded.
C25_ReleasedNamedByStatus ==
  PendingReleased =>
    /\ db.stock = pre.stock
    /\ ZeroEntryPerItem(IF db.sales[last.id].status.w = "cancelled"
                        THEN "sale_cancelled" ELSE "sale_returned")

C25_Witness ==
  /\ PendingReleased
  /\ db.sales[last.id].status = Lit("refunded")
  /\ Len(Appended) = 2
  /\ Appended[1].product_id = 1 /\ Appended[2].product_id = 1

\* C26: addSale with status pending appends, for each line item that
\* references a product, exactly one ledger entry with reason sale_pending
\* and quantity 0.
C26_PendingSaleVisible ==
  (last.op = "addSale" /\ last.ok /\ toLowerCase(last.status) = Lit("pending")) =>
    \A p \in Products :
      /\ Len(AppendedFor(p)) = Len(SelectSeq(last.items, LAMBDA item : item.productId = p))
      /\ \A k \in 1..Len(AppendedFor(p)) :
           AppendedFor(p)[k] = Entry(p, 0, "sale_pending", last.id, "sale")

(***************************************************************************)
(* Purchases with sales in between (SpecPurchaseSale): a purchase is       *)
(* created, lowered or withdrawn by updatePurchase, and deleted, while a   *)
(* sale may take more than the stock holds (updateProductStock lets the    *)
(* stock go negative).  Every statement succeeds.                          *)
(***************************************************************************)
PsPurchaseItemLists ==
  {<<PItem(1, q)>> : q \in 1..MaxQty} \cup {<<PItem(1, 1), PItem(2, MaxQty)>>}

PsSaleQuantities == {1, InitStock[1] + 1}

PsPurchaseRequest(status, ps, items) ==
  [status |-> status, purchase_status |-> ps, items |-> items,
   total_amount |-> PurchaseTotal, received_amount |-> 0]

PsCreatePurchase ==
  /\ nops < MaxOps
  /\ DOMAIN db.purchases = {}
  /\ \E ps \in PurchaseStatuses, items \in PsPurchaseItemLists :
       LET req == PsPurchaseRequest(Str("credit", "Title"), ps, items) IN
       Ran("createPurchase", createPurchase(db, req, NoFaults),
           db.nextPurchase, req.status, <<>>, NoFaults, req)

PsAddSale ==
  /\ nops < MaxOps
  /\ DOMAIN db.sales = {}
  /\ \E q \in PsSaleQuantities :
       LET req == [status |-> Lit("completed"), items |-> <<NewItem(1, q)>>] IN
       Ran("addSale", addSale(impl, db, req, NoFaults),
           db.nextSale, req.status, req.items, NoFaults, req)

PsUpdatePurchase ==
  /\ nops < MaxOps
  /\ \E id \in DOMAIN db.purchases, status \in PaymentStatuses,
        ps \in PurchaseStatuses, items \in PsPurchaseItemLists :
       LET req == [id |-> id] @@ PsPurchaseRequest(status, ps, items) IN
       /\ Len(items) = Len(db.purchases[id].items)
       /\ \A k \in 1..Len(items) :
            /\ items[k].product_id = db.purchases[id].items[k].product_id
            /\ items[k].quantity <= db.purchases[id].items[k].quantity
       /\ Ran("updatePurchase", updatePurchase(db, req, NoFaults),
              id, status, <<>>, NoFaults, req)

PsDeletePurchase ==
  /\ nops < MaxOps
  /\ \E id \in DOMAIN db.purchases :
       Ran("deletePurchase", deletePurchase(db, id, NoFaults),
           id, Undefined, <<>>, NoFaults, [id |-> id])

NextPurchaseSale == PsCreatePurchase \/ PsAddSale \/ PsUpdatePurchase \/ PsDeletePurchase

InitPurchaseSale == Init /\ impl = 2

SpecPurchaseSale == InitPurchaseSale /\ [][NextPurchaseSale]_vars

\* The quantity of product p a stored purchase has added to the stock.
AddedBy(row, p) == IF StockAdding(row) THEN SumPurchased(row.items, p, 1) ELSE 0

\* C27: deletePurchase of a purchase whose stock had been added, and
\* updatePurchase that lowers or withdraws its quantities, change each
\* product's stock by exactly the negated quantity difference, also when
\* the result is negative, and never leave it higher than before.
C27_PurchaseReversal ==
  /\ (last.op = "deletePurchase" /\ last.ok) =>
       \A p \in Products :
         /\ db.stock[p] = pre.stock[p] - AddedBy(pre.purchases[last.id], p)
         /\ db.stock[p] <= pre.stock[p]
  /\ (last.op = "updatePurchase" /\ last.ok
      /\ \A p \in Products : AddedBy(db.purchases[last.id], p)
                               <= AddedBy(pre.purchases[last.id], p)) =>
       \A p \in Products :
         db.stock[p] = pre.stock[p] - (AddedBy(pre.purchases[last.id], p)
                                       - AddedBy(db.purchases[last.id], p))

(***************************************************************************)
(* Two sale operations on different sales that touch product 1, statement  *)
(* by statement (SpecLostUpdate).  A caller adds a sale of product 1, or   *)
(* deletes the stored sale 1; updateProductStock first reads the stock     *)
(* (for its insufficient-stock warning) and then issues the UPDATE.  Each  *)
(* statement acts on the rows as they are when the store runs it; every    *)
(* statement succeeds.                                                     *)
(***************************************************************************)
\* A stock update that writes back the value read before: SET stock = <value>.
applyStockWriteBack(stock, currentStock, quantityChange, operation) ==
  IF operation = "subtract" THEN currentStock - quantityChange
  ELSE currentStock + quantityChange

\* UPDATE products SET stock = stock - q (or + q) WHERE id = productId
applyStockUpdate(stock, currentStock, quantityChange, operation) ==
  IF operation = "subtract" THEN stock - quantityChange ELSE stock + quantityChange

StockCall(pc, op, saleId, quantity, currentStock, stale) ==
  [pc |-> pc, op |-> op, saleId |-> saleId, quantity |-> quantity,
   currentStock |-> currentStock, stale |-> stale]

InitLostUpdate ==
  /\ impl \in {1, 2}
  /\ db = SaleToEdit(impl, Lit("completed"))
  /\ pre = db
  /\ last = NoOp
  /\ nops = 0
  /\ arg = NoArg
  /\ ret = NoRet
  /\ tx = NoTx
  /\ calls = [c \in Callers |-> StockCall("idle", "none", 0, 0, 0, FALSE)]

LuStep(c, call, store) ==
  /\ calls' = [calls EXCEPT ![c] = call]
  /\ db' = store
  /\ UNCHANGED <<pre, last, nops, impl, arg, ret, tx>>

\* addSale: BEGIN and INSERT INTO sales ... RETURNING id (the id comes from
\* a sequence, so two calls never get the same one).
LuAddSale(c) ==
  /\ calls[c].pc = "idle"
  /\ \E q \in 1..(MaxQty + 2) :
       LuStep(c, StockCall("select", "subtract", db.nextSale, q, 0, FALSE),
              [db EXCEPT !.nextSale = @ + 1])

\* deleteSale of sale 1: BEGIN, SELECT of the sale and of its items.
LuDeleteSale(c) ==
  /\ calls[c].pc = "idle"
  /\ \A o \in Callers : calls[o].saleId # 1
  /\ HasRow(db.sales, 1)
  /\ LuStep(c, StockCall("select", "add", 1, Held(db.sales[1].items, 1), 0, FALSE), db)

\* updateProductStock: SELECT id, name, stock FROM products
LuSelectStock(c) ==
  /\ calls[c].pc = "select"
  /\ LuStep(c, [calls[c] EXCEPT !.pc = "update", !.currentStock = db.stock[1]], db)

\* updateProductStock: the UPDATE; then the ledger insert.
LuUpdateStock(c) ==
  /\ calls[c].pc = "update"
  /\ LET call == calls[c]
         stocked == [db EXCEPT !.stock[1] =
                       applyStockUpdate(@, call.currentStock, call.quantity, call.op)]
         type == IF call.op = "subtract" THEN "sale_completed" ELSE "sale_deleted" IN
     LuStep(c, [call EXCEPT !.pc = "commit", !.stale = call.currentStock # db.stock[1]],
            createStockHistoryEntry(stocked, 1, type, call.quantity, call.saleId,
                                    "sale", FALSE).db)

\* The rows of the sale, and COMMIT.
LuCommit(c) ==
  /\ calls[c].pc = "commit"
  /\ LET call == calls[c] IN
     LuStep(c, [call EXCEPT !.pc = "done"],
            IF call.op = "add"
            THEN [db EXCEPT !.sales = DropRow(@, call.saleId)]
            ELSE [db EXCEPT !.sales = PutRow(@, call.saleId,
                    [SaleRow(Lit("completed"), call.quantity, 0, call.quantity)
                       EXCEPT !.items = <<ItemRow(call.saleId, 1, call.quantity)>>])])

NextLostUpdate ==
  \E c \in Callers :
    LuAddSale(c) \/ LuDeleteSale(c) \/ LuSelectStock(c) \/ LuUpdateStock(c) \/ LuCommit(c)

SpecLostUpdate == InitLostUpdate /\ [][NextLostUpdate]_vars

\* The stock delta of a call: minus the quantity sold, plus the quantity of
\* the deleted sale.
DeltaOf(call) == IF call.op = "subtract" THEN -call.quantity ELSE call.quantity

\* C28: for every interleaving of two sale operations on different sales
\* that touch the same product, once both have finished the product's
\* stock is its initial stock plus the deltas of both operations.
C28_NoLostUpdate ==
  BothDone => db.stock[1] = pre.stock[1] + DeltaOf(calls[1]) + DeltaOf(calls[2])

\* Both calls finished, and one of them updated the stock after the value
\* it had read was no longer current.
C28_Witness ==
  /\ BothDone
  /\ calls[1].stale /\ calls[1].op = "add"
  /\ calls[2].op = "subtract" /\ calls[2].quantity > calls[2].currentStock
  /\ db.stock[1] = pre.stock[1] + calls[1].quantity - calls[2].quantity

(***************************************************************************)
(* The scope statements of the operations (SpecBracket).  calls is the    *)
(* list of the BEGIN / COMMIT / ROLLBACK statements the running operation  *)
(* has issued, each with whether it completed; arg is the call: the        *)
(* operation, the statement that throws in it (if any) and the outcome of  *)
(* its body when nothing throws.                                           *)
(***************************************************************************)
Stmt(stmt, ok) == [stmt |-> stmt, ok |-> ok]

SaleOps == {"addSale", "updateSale", "deleteSale"}

PurchaseOps == {"createPurchase", "updatePurchase", "deletePurchase"}

\* What can throw in one call: nothing, the BEGIN, a statement of the body,
\* the ROLLBACK of an early return, the COMMIT, or revalidatePath, which the
\* sale and the purchase actions call after the COMMIT inside the same try.
ThrowPoints == {"none", "BEGIN", "body", "ROLLBACK", "COMMIT", "revalidatePath"}

ValidationMessages ==
  {"Invalid items", "Received amount cannot be greater than total amount"}

\* The way the body of the operation leaves when no statement throws.
pathOf(op, plan) ==
  IF plan.thrown THEN "throws before BEGIN"
  ELSE IF op \in PurchaseOps /\ plan.msg \in ValidationMessages THEN "returns before BEGIN"
  ELSE IF op \in PurchaseOps /\ ~plan.ok THEN "throw new Error"
  ELSE IF op \in SaleOps /\ (~plan.ok \/ plan.msg = "No changes detected")
  THEN "ROLLBACK; return"
  ELSE "COMMIT"

BrResult(ok, msg, thrown) == [db |-> db, ok |-> ok, msg |-> msg, thrown |-> thrown]

BrReturned(r) == Rec(arg.op, r, 0, Undefined, <<>>, NoFaults, [id |-> 0])

InitBracket == InitRecorder

BrCall(op, plan) ==
  /\ nops < MaxFaultOps
  /\ \E throws \in ThrowPoints :
       LET path == pathOf(op, plan) IN
       /\ arg' = [op |-> op, throws |-> throws, plan |-> plan, path |-> path]
       /\ tx' = [NoTx EXCEPT !.pc = IF path \in {"throws before BEGIN", "returns before BEGIN"}
                                    THEN "returned" ELSE "BEGIN"]
       /\ last' = Rec(op, plan, 0, Undefined, <<>>, NoFaults, [id |-> 0])
  /\ calls' = <<>>
  /\ pre' = db
  /\ nops' = nops + 1
  /\ UNCHANGED <<db, impl, ret>>

BrAddSale ==
  /\ tx.pc \in {"idle", "returned"}
  /\ \E status \in FaultSaleStatuses, items \in FaultItemLists :
       BrCall("addSale", addSale(impl, db, [status |-> status, items |-> items], NoFaults))

BrUpdateSale ==
  /\ tx.pc \in {"idle", "returned"}
  /\ \E id \in DOMAIN db.sales, status \in FaultSaleStatuses :
       \E items \in {asSent(db.sales[id].items),
                     [asSent(db.sales[id].items) EXCEPT ![1].quantity = @ + 1]} :
         BrCall("updateSale",
                updateSale(impl, db, [id |-> id, status |-> status, items |-> items,
                                      priceChanged |-> FALSE], NoFaults))

BrDeleteSale ==
  /\ tx.pc \in {"idle", "returned"}
  /\ \E id \in DOMAIN db.sales \cup {db.nextSale} :
       BrCall("deleteSale", deleteSale(impl, db, id, NoFaults))

BrCreatePurchase ==
  /\ tx.pc \in {"idle", "returned"}
  /\ \E status \in PaymentStatuses, total \in {0, 1} :
       BrCall("createPurchase",
              createPurchase(db, [status |-> status, purchase_status |-> Str("delivered", "Title"),
                                  items |-> <<PItem(1, 1)>>, total_amount |-> total], NoFaults))

BrUpdatePurchase ==
  /\ tx.pc \in {"idle", "returned"}
  /\ \E id \in DOMAIN db.purchases \cup {db.nextPurchase}, ps \in PurchaseStatuses :
       BrCall("updatePurchase",
              updatePurchase(db, [id |-> id, status |-> Str("credit", "Title"),
                                  purchase_status |-> ps, items |-> <<PItem(1, 1)>>,
                                  total_amount |-> 1], NoFaults))

BrDeletePurchase ==
  /\ tx.pc \in {"idle", "returned"}
  /\ \E id \in DOMAIN db.purchases \cup {db.nextPurchase} :
       BrCall("deletePurchase", deletePurchase(db, id, NoFaults))

BrExecuteInTransaction ==
  /\ tx.pc \in {"idle", "returned"}
  /\ BrCall("executeInTransaction", Outcome(runOperation(db, 2), TRUE, "result"))

BrStep(next, log) ==
  /\ tx' = next
  /\ calls' = log
  /\ UNCHANGED <<db, pre, nops, impl, arg, ret>>

\* await sql`BEGIN`: in the sale and the purchase actions it stands before
\* the inner try, so its error goes to the handler that returns the failure
\* result; in executeInTransaction it stands inside the try.
BrBegin ==
  /\ tx.pc = "BEGIN"
  /\ IF arg.throws # "BEGIN"
     THEN BrStep([tx EXCEPT !.pc = "body"], Append(calls, Stmt("BEGIN", TRUE)))
          /\ UNCHANGED last
     ELSE IF arg.op = "executeInTransaction"
     THEN BrStep([tx EXCEPT !.pc = "catch"], Append(calls, Stmt("BEGIN", FALSE)))
          /\ UNCHANGED last
     ELSE BrStep([tx EXCEPT !.pc = "returned"], Append(calls, Stmt("BEGIN", FALSE)))
          /\ last' = BrReturned(BrResult(FALSE, "Database error", FALSE))

BrBody ==
  /\ tx.pc = "body"
  /\ BrStep([tx EXCEPT !.pc = IF arg.throws = "body" \/ arg.path = "throw new Error"
                              THEN "catch"
                              ELSE IF arg.path = "ROLLBACK; return" THEN "ROLLBACK"
                              ELSE "COMMIT"], calls)
  /\ UNCHANGED last

\* await sql`ROLLBACK`; return { ... } inside the inner try.
BrEarlyRollback ==
  /\ tx.pc = "ROLLBACK"
  /\ IF arg.throws = "ROLLBACK"
     THEN BrStep([tx EXCEPT !.pc = "catch"], Append(calls, Stmt("ROLLBACK", FALSE)))
          /\ UNCHANGED last
     ELSE BrStep([tx EXCEPT !.pc = "returned"], Append(calls, Stmt("ROLLBACK", TRUE)))
          /\ last' = BrReturned(arg.plan)

BrCommit ==
  /\ tx.pc = "COMMIT"
  /\ IF arg.throws = "COMMIT"
     THEN /\ tx' = [tx EXCEPT !.pc = "catch"]
          /\ calls' = Append(calls, Stmt("COMMIT", FALSE))
          /\ UNCHANGED <<db, last>>
     ELSE /\ db' = sqlCommit(db, arg.plan.db)
          /\ calls' = Append(calls, Stmt("COMMIT", TRUE))
          /\ IF arg.op = "executeInTransaction"
             THEN tx' = [tx EXCEPT !.pc = "returned"] /\ last' = BrReturned(arg.plan)
             ELSE tx' = [tx EXCEPT !.pc = "revalidatePath"] /\ UNCHANGED last
  /\ UNCHANGED <<pre, nops, impl, arg, ret>>

\* The second implementation's addSale defers the call with setImmediate, so
\* there its error does not reach the catch; everywhere else revalidatePath
\* is called in the inner try, right after the COMMIT.
revalidateInTry(i, op) == ~(i = 2 /\ op = "addSale")

\* revalidatePath("/dashboard") ... return { success: true, ... }
BrRevalidatePath ==
  /\ tx.pc = "revalidatePath"
  /\ IF arg.throws = "revalidatePath" /\ revalidateInTry(impl, arg.op)
     THEN BrStep([tx EXCEPT !.pc = "catch"], calls) /\ UNCHANGED last
     ELSE BrStep([tx EXCEPT !.pc = "returned"], calls) /\ last' = BrReturned(arg.plan)

\* catch (error) { await sql`ROLLBACK`; throw error }: the outer handler of
\* the sale and the purchase actions turns the error into a failure result;
\* executeInTransaction retries the transient errors and throws the others.
BrCatch ==
  /\ tx.pc = "catch"
  /\ calls' = Append(calls, Stmt("ROLLBACK", TRUE))
  /\ db' = sqlRollback(db, db)
  /\ IF arg.op # "executeInTransaction"
     THEN /\ tx' = [tx EXCEPT !.pc = "returned"]
          /\ last' = BrReturned(BrResult(FALSE, "Database error", FALSE))
          /\ UNCHANGED arg
     ELSE \E message \in ErrorMessages :
            IF isTransient(Failure(message, arg.throws)) /\ tx.retryCount + 1 < maxRetries
            THEN /\ tx' = [tx EXCEPT !.pc = "BEGIN", !.retryCount = @ + 1]
                 /\ \E throws \in {"none", "BEGIN", "body", "COMMIT"} :
                      arg' = [arg EXCEPT !.throws = throws]
                 /\ UNCHANGED last
            ELSE /\ tx' = [tx EXCEPT !.pc = "returned"]
                 /\ last' = BrReturned(BrResult(FALSE, message, TRUE))
                 /\ UNCHANGED arg
  /\ UNCHANGED <<pre, nops, impl, ret>>

NextBracket ==
  \/ BrAddSale \/ BrUpdateSale \/ BrDeleteSale
  \/ BrCreatePurchase \/ BrUpdatePurchase \/ BrDeletePurchase
  \/ BrExecuteInTransaction
  \/ BrBegin \/ BrBody \/ BrEarlyRollback \/ BrCommit \/ BrRevalidatePath \/ BrCatch

SpecBracket == InitBracket /\ [][NextBracket]_vars

\* The completed COMMIT and ROLLBACK statements between the BEGIN at position
\* i of the list and the next BEGIN (or the end of the list).
EndsOf(log, i) ==
  {j \in (i + 1)..Len(log) :
     /\ log[j].ok /\ log[j].stmt \in {"COMMIT", "ROLLBACK"}
     /\ \A k \in (i + 1)..j : log[k].stmt # "BEGIN"}

Bracketed(log) ==
  \A i \in 1..Len(log) :
    log[i] = Stmt("BEGIN", TRUE) => Cardinality(EndsOf(log, i)) = 1

Committed(log) == \E j \in 1..Len(log) : log[j] = Stmt("COMMIT", TRUE)

FailureResult == ~last.ok /\ ~last.thrown

\* C29: when an operation has returned, each BEGIN it completed is followed
\* by exactly one completed COMMIT or ROLLBACK before the next BEGIN or the
\* return, and an operation that returned a failure result has committed
\* nothing: the store is as it was at the call.
C29_TransactionBracketing ==
  tx.pc = "returned" =>
    /\ Bracketed(calls)
    /\ FailureResult => ~Committed(calls) /\ db = pre

(***************************************************************************)
(* The new-purchase modal (SpecModal).  tx holds the component: the prop   *)
(* isOpen as the parent has set it, the ref isSubmittingRef, the state     *)
(* isSubmitting, and rendered, the isOpen and isSubmitting of the last     *)
(* committed render, which the buttons and the handlers' closures see.     *)
(* calls lists the createPurchase calls that have not returned yet.  impl  *)
(* 1 is the modal of part_002, impl 2 that of new-purchase-modal.tsx.      *)
(***************************************************************************)
Modal(isOpen, ref, isSubmitting, rendered) ==
  [pc |-> "modal", isOpen |-> isOpen, isSubmittingRef |-> ref,
   isSubmitting |-> isSubmitting, rendered |-> rendered]

Rendered(isOpen, isSubmitting) == [isOpen |-> isOpen, isSubmitting |-> isSubmitting]

SubmitResult(msg) == Rec("handleSubmit", Outcome(db, TRUE, msg), 0, Undefined, <<>>,
                         NoFaults, [id |-> 0])

\* if (isSubmittingRef.current) return
submissionGuardOff(ref) == FALSE

submissionGuard(ref) == ref

\* The form of the modal, valid or not (validateForm), and what it submits.
FormInputs == {<<PItem(1, 1)>>, <<>>}

ModalRequest(items) ==
  [status |-> Str("credit", "Title"), purchase_status |-> Str("delivered", "Title"),
   items |-> items, total_amount |-> Len(items)]

InitModal ==
  /\ db = EmptyStore
  /\ pre = EmptyStore
  /\ last = NoOp
  /\ nops = 0
  /\ impl \in {1, 2}
  /\ arg = NoArg
  /\ ret = NoRet
  /\ tx = Modal(FALSE, FALSE, FALSE, Rendered(FALSE, FALSE))
  /\ calls = <<>>

ModalStep(next) ==
  /\ tx' = next
  /\ UNCHANGED <<db, pre, nops, impl, arg, ret>>

\* The parent: onClick={() => setShowAddModal(true)}, and
\* setShowAddModal(isAddModalOpen) when its own prop changes.
ParentSetShowAddModal ==
  /\ \E show \in BOOLEAN : ModalStep([tx EXCEPT !.isOpen = show])
  /\ UNCHANGED <<last, calls>>

\* A render is committed; the effect on [isOpen] resets the form, and the
\* ref with it, when the modal has gone from open to closed.
Render ==
  /\ tx.rendered # Rendered(tx.isOpen, tx.isSubmitting)
  /\ ModalStep([tx EXCEPT !.rendered = Rendered(tx.isOpen, tx.isSubmitting),
                          !.isSubmittingRef =
                            IF tx.rendered.isOpen /\ ~tx.isOpen THEN FALSE ELSE @])
  /\ UNCHANGED <<last, calls>>

\* A click on the submit button, which is disabled={isSubmitting}.
handleSubmit ==
  /\ tx.rendered.isOpen /\ ~tx.rendered.isSubmitting
  /\ nops < MaxOps
  /\ \E items \in FormInputs :
       IF submissionGuard(tx.isSubmittingRef)
       THEN /\ ModalStep(tx)
            /\ last' = SubmitResult("returned: submitting")
            /\ UNCHANGED calls
       ELSE IF ~validatePurchaseData(Len(items), items)
       THEN /\ ModalStep(tx)
            /\ last' = SubmitResult("returned: invalid form")
            /\ UNCHANGED calls
       ELSE /\ tx' = [tx EXCEPT !.isSubmittingRef = TRUE, !.isSubmitting = TRUE]
            /\ calls' = Append(calls, ModalRequest(items))
            /\ last' = SubmitResult("createPurchase")
            /\ nops' = nops + 1
            /\ UNCHANGED <<db, pre, impl, arg, ret>>

\* A click on the close button: if (!isSubmitting) onClose()
handleClose ==
  /\ tx.rendered.isOpen /\ ~tx.rendered.isSubmitting
  /\ ModalStep([tx EXCEPT !.isOpen = FALSE])
  /\ UNCHANGED <<last, calls>>

\* createPurchase returns or throws: on success onClose(), and in every
\* case the finally block.
SubmissionFinishes ==
  /\ calls # <<>>
  /\ \E fails \in BOOLEAN :
       LET r == IF fails THEN Outcome(db, FALSE, "Failed to create purchase")
                ELSE createPurchase(db, Head(calls), NoFaults) IN
       /\ db' = r.db
       /\ pre' = db
       /\ tx' = [tx EXCEPT !.isOpen = IF r.ok THEN FALSE ELSE @,
                           !.isSubmitting = FALSE, !.isSubmittingRef = FALSE]
  /\ calls' = Tail(calls)
  /\ UNCHANGED <<last, nops, impl, arg, ret>>

NextModal ==
  \/ ParentSetShowAddModal \/ Render \/ handleSubmit \/ handleClose \/ SubmissionFinishes

SpecModal == InitModal /\ [][NextModal]_vars

\* C30: at most one createPurchase call is in flight, and a handleSubmit
\* invoked while a submission has not finished leaves the calls in flight as
\* they were, whatever the order of the clicks, the renders, the closing and
\* reopening of the modal and the end of the submission.
C30_DoubleSubmissionGuard ==
  /\ [](Len(calls) <= 1)
  /\ [][calls # <<>> => Len(calls') <= Len(calls)]_vars

\* A second click on the submit button before the render that disables it,
\* while the first call is in flight.
C30_Witness ==
  /\ Len(calls) = 1
  /\ last.msg = "returned: submitting"
  /\ ~tx.rendered.isSubmitting

====
